---------------------------- MODULE Spec2Model ----------------------------
(***************************************************************************)
(* Voice-driven symptom triage: the AIVoiceConsultation controller         *)
(* (components/AIVoiceConsultation.tsx, src/unnamed/part_003) driving the  *)
(* VoiceService singleton (services/voiceService.ts, src/unnamed/part_004),*)
(* the AIService it asks for an analysis (services/aiService.ts) and the   *)
(* page that files the consultation (src/unnamed/part_006).                *)
(*                                                                         *)
(* The program state is kept in one record per state (the operators below  *)
(* are the handlers of the source, each a function from the record before  *)
(* the call to the record after it), and the VARIABLES are the record's    *)
(* fields.                                                                 *)
(*                                                                         *)
(* A React function component creates new handler closures on every        *)
(* render; a closure reads the state values (autoResumeListen, isSpeaking, *)
(* isProcessing) of the render that created it, while refs                 *)
(* (conversationState, shouldResumeListening, processingTimeoutRef) are    *)
(* shared.  A handler therefore takes the closure environment e of the     *)
(* render it was created in, and every timer or device callback carries    *)
(* the environment of the handler that registered it.                      *)
(*                                                                         *)
(* The user agent (Web Speech API, timers) is the environment:             *)
(*  - setTimeout callbacks run in the order the HTML Standard guarantees:  *)
(*    a timer waits for every timer started before it whose delay is not   *)
(*    larger than its own; otherwise in any order;                         *)
(*  - recognition.start() on a recognition that has been started and has   *)
(*    not yet fired error or end throws (InvalidStateError);               *)
(*  - recognition.stop() stops listening; the engine may still return a    *)
(*    final result for the audio it has, then fires end;                   *)
(*  - speechSynthesis.cancel() empties the utterance queue; every removed  *)
(*    utterance receives one terminal event (error, or end in some user    *)
(*    agents), dispatched asynchronously;                                  *)
(*  - speechSynthesis.speaking is true while an utterance is being spoken; *)
(*    whether it is true for an utterance queued and not yet started       *)
(*    differs between user agents and is chosen once per run.              *)
(*                                                                         *)
(* Specifications:                                                         *)
(*  - Spec: a session with every button, timer, device event and fault;    *)
(*  - ScriptedSpec: a session in which the user only speaks, with a        *)
(*    richer set of utterances (the conversation engine);                  *)
(*  - ReliableSpec: a short session on devices that do not fail, with      *)
(*    more button presses;                                                 *)
(*  - VoiceFairSpec: VoiceService called directly, with the fairness of    *)
(*    the user agent's event dispatch;                                     *)
(*  - ScenarioSpec: a session on devices that do not fail, one utterance   *)
(*    per listening phase, drawn from the symptom scenarios;               *)
(*  - TriageSpec: a scripted session with or without an API key and with   *)
(*    every outcome of the model call, handed over to the page;            *)
(*  - AnalysisSpec: AIService.analyzeSymptoms called directly;             *)
(*  - FallbackSpec: the same with a model call that always fails and a     *)
(*    caller that changes its arguments between calls;                     *)
(*  - ServiceSpec: VoiceService called directly, capture and playback;     *)
(*  - FurtherSpec: a session on devices that do not fail in which the      *)
(*    user goes on to report other complaints;                             *)
(*  - ChatSpec: a session of the page's other voice dialog, VoiceChat      *)
(*    (components/VoiceChat.tsx, src/unnamed/part_000), on the same        *)
(*    VoiceService, with every button, timer, device event and fault.      *)
(***************************************************************************)
EXTENDS Integers, Sequences, FiniteSets, TLC

VARIABLES
    \* VoiceService (part_004)
    vsIsListening,          \* VoiceService.isListening
    currentUtterance,       \* VoiceService.currentUtterance (call id, 0 = null)
    recognition,            \* the recognition engine: "idle", "running", "stopping"
    recHandlers,            \* the callbacks attached to recognition.onresult/onerror
    synthQueue,             \* speechSynthesis' utterance queue, head is spoken first
    \* user agent capabilities, fixed per run
    recognitionSupported,   \* window.SpeechRecognition exists
    synthesisSupported,     \* 'speechSynthesis' in window
    speakingCountsPending,  \* synthesis.speaking is true for a queued, unstarted utterance
    \* AIVoiceConsultation: React state.  VoiceChat (part_000) has state and a ref of
    \* the same names; in a run that mounts VoiceChat these variables hold them
    isListening, isSpeaking, isProcessing, autoResumeListen, messages,
    autoSpeak,              \* VoiceChat only: responses are spoken
    \* AIVoiceConsultation: refs
    stage, turnCount, symptoms, fullTranscript,
    shouldResumeListening, processingTimeoutRef,
    mounted,                \* the component is mounted (FALSE after the unmount cleanup)
    submitted,              \* number of onSubmitSymptoms invocations
    \* the page that shows the dialog (part_006): React state
    selectedSymptoms, description, analyzing, aiAnalysis,
    \* AIService (services/aiService.ts)
    hasApiKey,              \* VITE_HUGGINGFACE_API_KEY is set (fixed per run)
    oracleCalls,            \* number of callAIModel calls so far
    lastAnalysis,           \* the most recent analyzeSymptoms call: arguments, reply, result
    shownAnalysis,          \* the analysis in the text performAnalysis returned last (NoAnalysis: none)
    \* react-hot-toast
    toasts,                 \* the texts of the toast.error notifications shown so far
    \* runtime
    tasks,                  \* pending timers and queued device events, in creation order
    inflight,               \* handleUserMessage calls suspended at the oracle await
    speakCalls,             \* number of VoiceService.speak calls so far
    terminal,               \* terminal[i]: terminal callbacks received by speak call i
    heard,                  \* heard[i]: onResult and onError callbacks received by the i-th
                            \* startListening call of a direct client of VoiceService
    uncaught,               \* an exception has escaped a VoiceService call
    finals,                 \* final transcripts buffered since the debounce timer was last idle (0, 1, many)
    lastFinal,              \* the text of the most recent of them
    cycle,                  \* "answering" from the commit of a user utterance, "due" from the terminal
                            \* callback of the utterance that answers it, received with auto-listen on
                            \* in a stage other than complete, until capture is active; "idle"
                            \* otherwise, and from the moment the user presses a button
    armed,                  \* FALSE from a switch of auto-listen off until the next explicit start or switch on
    halted,                 \* TRUE from a press of Stop Listening until the user presses another button
    analysed,               \* the analyzeSymptoms calls made with a failing oracle by a client
                            \* that changes its arguments between calls, oldest first
    stale,                  \* a final transcript waits for its debounce timer and the capture
                            \* session that delivered it has ended, failed or been stopped
    lapsed,                 \* TRUE from a no-speech or aborted capture error reported with auto-listen
                            \* on and the resume intent set, until capture is active again or the
                            \* user presses a button
    budget,                 \* what a run may contain: button presses, device faults, committed
                            \* utterances, replies of the oracle (fixed per run)
    clicks,                 \* buttons pressed so far
    faults                  \* device faults so far: capture errors, self-ended captures, results after stop(), failed utterances

vars == << vsIsListening, currentUtterance, recognition, recHandlers, synthQueue,
           recognitionSupported, synthesisSupported, speakingCountsPending,
           isListening, isSpeaking, isProcessing, autoResumeListen, messages,
           autoSpeak, stage, turnCount, symptoms, fullTranscript,
           shouldResumeListening, processingTimeoutRef, mounted, submitted,
           selectedSymptoms, description, analyzing, aiAnalysis,
           hasApiKey, oracleCalls, lastAnalysis, shownAnalysis, toasts,
           tasks, inflight, speakCalls, terminal, heard, uncaught,
           finals, lastFinal, cycle, armed, halted, lapsed, analysed, stale,
           budget, clicks, faults >>

-----------------------------------------------------------------------------
(* Bounds of the model *)

\* committed user utterances per session
MaxTurns == 5
\* timers and queued device events pending at the same time
MaxTasks == 3
\* utterance pipelines suspended at the oracle at the same time
MaxInflight == 2
\* buttons the user presses per session
MaxClicks == 2
\* device faults per session
MaxFaults == 1
\* speak calls of a direct client of VoiceService
MaxSpeakCalls == 3
\* startListening calls of a direct client of VoiceService, and the callbacks one
\* of them receives
MaxListenCalls == 3
MaxHeard == 2
\* buttons pressed, and committed utterances, in a short session on reliable devices
MaxPresses == 3
MaxShortTurns == 2
\* committed utterances of a scenario
MaxScenarioTurns == 4
\* analyzeSymptoms calls of a direct client of AIService
MaxAnalyses == 2
\* analyzeSymptoms calls of a client whose oracle always fails
MaxFallbackCalls == 3
\* buttons pressed, and exchanges, in a VoiceChat session
MaxChatClicks == 3
MaxChatTurns == 1

(* Program constants: the setTimeout delays, in milliseconds *)
DebounceDelay == 2000
RetryDelay == 500
GraceDelay == 800
SkipDelay == 500
\* VoiceChat's debounce delay; its other delays equal those above
ChatDebounceDelay == 1200

-----------------------------------------------------------------------------
(* Text: strings, with the String methods the source uses *)

UpperChars == "ABCDEFGHIJKLMNOPQRSTUVWXYZ"
LowerChars == "abcdefghijklmnopqrstuvwxyz"

charAt(s, i) == SubSeq(s, i, i)

LowerChar(c) ==
    IF \E i \in 1..26 : charAt(UpperChars, i) = c
    THEN charAt(LowerChars, CHOOSE i \in 1..26 : charAt(UpperChars, i) = c)
    ELSE c

UpperChar(c) ==
    IF \E i \in 1..26 : charAt(LowerChars, i) = c
    THEN charAt(UpperChars, CHOOSE i \in 1..26 : charAt(LowerChars, i) = c)
    ELSE c

RECURSIVE toLowerCase(_)
\* String.prototype.toLowerCase: every character lowered, the two halves of the
\* string one after the other
toLowerCase(s) ==
    IF Len(s) = 0 THEN ""
    ELSE IF Len(s) = 1 THEN LowerChar(s)
    ELSE toLowerCase(SubSeq(s, 1, Len(s) \div 2))
            \o toLowerCase(SubSeq(s, Len(s) \div 2 + 1, Len(s)))

\* String.prototype.includes
includes(s, p) == \E i \in 0..(Len(s) - Len(p)) : SubSeq(s, i + 1, i + Len(p)) = p

\* A test that takes only the empty text for blank
trimIsEmpty_strict(s) == Len(s) = 0

\* String.prototype.trim, as far as handleUserMessage uses it: is the trimmed text empty
RECURSIVE trimIsEmpty(_)
trimIsEmpty(s) ==
    IF Len(s) = 0 THEN TRUE
    ELSE charAt(s, 1) = " " /\ trimIsEmpty(SubSeq(s, 2, Len(s)))

\* symptom.charAt(0).toUpperCase() + symptom.slice(1)
Capitalize(s) == IF Len(s) = 0 THEN "" ELSE UpperChar(charAt(s, 1)) \o SubSeq(s, 2, Len(s))

\* The final transcripts the recognition engine delivers in a session
SessionUtterances == { "yes I have a headache", " " }

\* The final transcripts of a scripted session
ScriptedUtterances == { "I have a cough", "it is worse at night", "no that's all", "yes please" }

\* The utterances of the scenarios: a headache reported in four utterances, and
\* utterances that deny symptoms or name further ones
HeadacheScenario ==
    << "I have a really bad headache", "started this morning",
       "it's about a 7 out of 10", "no that's all" >>

ScenarioUtterances ==
    { HeadacheScenario[i] : i \in 1..Len(HeadacheScenario) }
        \cup { "I don't have any pain", "No fever, just a cough", "and a Fever since yesterday" }


-----------------------------------------------------------------------------
(* Closure environments and callbacks *)

\* The React state a handler closure reads: the values of the render that created it
Env(auto, speaking, processing) ==
    [auto |-> auto, speaking |-> speaking, processing |-> processing]

\* The first render: useState initial values
InitialEnv == Env(TRUE, FALSE, FALSE)

\* Callbacks handed to VoiceService: those of an AIVoiceConsultation closure with
\* environment e, those of a bare caller of the service that only records them, or none
SessionCallbacks(e) == [client |-> "session", e |-> e, id |-> 0]
BareCallbacks == [client |-> "bare", e |-> InitialEnv, id |-> 0]
NoCallbacks == [client |-> "none", e |-> InitialEnv, id |-> 0]

\* The React state a VoiceChat closure reads
ChatEnv(auto, speaking, processing, speaks) ==
    [auto |-> auto, speaking |-> speaking, processing |-> processing, speaks |-> speaks]

\* Callbacks of a VoiceChat closure with environment e.  id names the
\* handleStartListening call that created capture callbacks (0 for the others): the
\* callbacks and debounce timers of one call share its local finalTranscriptRef
ChatCallbacks(e, id) == [client |-> "chat", e |-> e, id |-> id]

\* The onResult and onError callbacks of the id-th startListening call of a direct
\* client, which counts their invocations
ClientCallbacks(id) == [client |-> "bare", e |-> InitialEnv, id |-> id]

\* A pending setTimeout callback or a queued device event.
\*   k: "debounce", "grace", "retry", "skip" (timers of part_003),
\*      "chatDebounce", "chatGrace", "chatResume", "chatRetry", "chatSkip" (timers of
\*      VoiceChat, part_000),
\*      "cancelled" (the terminal event of an utterance removed by cancel()),
\*      "recend" (the end event of a recognition stopped by stop())
\*   cb: the callbacks (closure) it will run;  text: the accumulatedTranscript of the
\*   listening session a debounce timer belongs to;  id: the speak call of a
\*   cancelled utterance
Task(k, cb, text, id) == [k |-> k, cb |-> cb, text |-> text, id |-> id]

Delay(t) ==
    CASE t.k = "debounce" -> DebounceDelay
      [] t.k = "grace" -> GraceDelay
      [] t.k = "retry" -> RetryDelay
      [] t.k = "skip" -> SkipDelay
      [] t.k = "chatDebounce" -> ChatDebounceDelay
      [] t.k = "chatRetry" -> RetryDelay
      [] t.k = "chatGrace" -> GraceDelay
      [] t.k = "chatResume" -> RetryDelay
      [] t.k = "chatSkip" -> SkipDelay
      [] OTHER -> 0

\* HTML timer ordering: task i may run when no task created before it, with a delay
\* not larger than its own, is still pending
CanRun(ts, i) == \A j \in 1..(i - 1) : Delay(ts[j]) > Delay(ts[i])

RemoveAt(seq, i) == SubSeq(seq, 1, i - 1) \o SubSeq(seq, i + 1, Len(seq))

RECURSIVE SelectNot(_, _)
\* seq without the tasks of kind k
SelectNot(seq, k) ==
    IF seq = << >> THEN << >>
    ELSE (IF Head(seq).k = k THEN << >> ELSE << Head(seq) >>) \o SelectNot(Tail(seq), k)

HasTask(ts, k) == \E i \in 1..Len(ts) : ts[i].k = k

\* setTimeout(callback, delay)
setTimeout(s, t) == [s EXCEPT !.tasks = Append(@, t)]

\* if (processingTimeoutRef.current) clearTimeout(processingTimeoutRef.current)
\* Every debounce timer is stored in the ref when it is created, and the ref's
\* previous timer is cleared first, so the ref's timer is the only debounce task.
clearProcessingTimeout(s) ==
    IF s.processingTimeoutRef THEN [s EXCEPT !.tasks = SelectNot(@, "debounce")] ELSE s

-----------------------------------------------------------------------------
(* React state setters: an update of an unmounted component is dropped *)

setIsListening(s, v) == IF s.mounted THEN [s EXCEPT !.isListening = v] ELSE s
setIsSpeaking(s, v) == IF s.mounted THEN [s EXCEPT !.isSpeaking = v] ELSE s
setIsProcessing(s, v) == IF s.mounted THEN [s EXCEPT !.isProcessing = v] ELSE s
setAutoResumeListen(s, v) == IF s.mounted THEN [s EXCEPT !.autoResumeListen = v] ELSE s

\* addMessage(type, text): the text is recorded by the name of the prompt
addMessage(s, type, text) ==
    IF s.mounted THEN [s EXCEPT !.messages = Append(@, << type, text >>)] ELSE s

\* toast.error(text): the toaster belongs to the application, not to the component
toast_error(s, text) == [s EXCEPT !.toasts = Append(@, text)]


-----------------------------------------------------------------------------
(* AIVoiceConsultation: the callbacks it hands to VoiceService *)

TransientErrors == { "no-speech", "aborted" }

\* An onResult callback that does not clear the timer of the previous final
captureOnFinal_keepTimer(s, e, transcript) ==
    [setTimeout(s, Task("debounce", SessionCallbacks(e), transcript, 0))
        EXCEPT !.processingTimeoutRef = TRUE]

\* startListening's onResult callback, isFinal branch (the interim branch only sets
\* interimTranscript, which no handler reads)
captureOnFinal(s, e, transcript) ==
    LET s1 == clearProcessingTimeout(s)
        s2 == setTimeout(s1, Task("debounce", SessionCallbacks(e), transcript, 0))
    IN [s2 EXCEPT !.processingTimeoutRef = TRUE]

\* An onError callback that notifies the user of every error
captureOnError_loud(s, e, error) ==
    LET s1 == setIsListening(s, FALSE)
        s2 == IF s1.processingTimeoutRef
              THEN [clearProcessingTimeout(s1) EXCEPT !.processingTimeoutRef = FALSE]
              ELSE s1
        s3 == toast_error(s2, "Speech recognition error: " \o error)
    IN IF error \in TransientErrors /\ s3.shouldResumeListening /\ e.auto
       THEN setTimeout(s3, Task("retry", SessionCallbacks(e), "", 0))
       ELSE s3

\* startListening's onError callback
captureOnError(s, e, error) ==
    LET s1 == setIsListening(s, FALSE)
        s2 == IF s1.processingTimeoutRef
              THEN [clearProcessingTimeout(s1) EXCEPT !.processingTimeoutRef = FALSE]
              ELSE s1
        s3 == IF error \notin TransientErrors
              THEN toast_error(s2, "Speech recognition error: " \o error)
              ELSE s2
    IN IF error \in TransientErrors /\ s3.shouldResumeListening /\ e.auto
       THEN setTimeout(s3, Task("retry", SessionCallbacks(e), "", 0))
       ELSE s3

\* speakText's onStart callback (VoiceChat's is the same)
playbackOnStart(s, e) == setIsSpeaking(s, TRUE)

\* speakText's onEnd callback
playbackOnEnd(s, e) ==
    LET s1 == setIsSpeaking(s, FALSE)
    IN IF s1.shouldResumeListening /\ e.auto /\ s1.stage # "complete"
       THEN setTimeout(s1, Task("grace", SessionCallbacks(e), "", 0))
       ELSE s1

\* speakText's onError callback
playbackOnError(s, e) ==
    LET s1 == setIsSpeaking(s, FALSE)
    IN IF s1.shouldResumeListening /\ e.auto
       THEN setTimeout(s1, Task("grace", SessionCallbacks(e), "", 0))
       ELSE s1

-----------------------------------------------------------------------------
(* VoiceChat: the callbacks it hands to VoiceService *)

\* finalTranscriptRef = text, as seen by the pending debounce timers of the
\* handleStartListening call id, which read it when they fire
AssignFinalTranscriptRef(ts, id, text) ==
    [i \in 1..Len(ts) |-> IF ts[i].k = "chatDebounce" /\ ts[i].id = id
                          THEN [ts[i] EXCEPT !.text = text]
                          ELSE ts[i]]

\* startListening's onResult callback, isFinal branch: no timer is cleared
VoiceChat_onResult(s, cb, transcript) ==
    setTimeout([s EXCEPT !.tasks = AssignFinalTranscriptRef(@, cb.id, transcript)],
               Task("chatDebounce", cb, transcript, cb.id))

\* startListening's onError callback
VoiceChat_onError(s, e, error) ==
    LET s1 == setIsListening(s, FALSE)
        s2 == IF error \notin TransientErrors
              THEN toast_error(s1, "Speech recognition error: " \o error)
              ELSE s1
    IN IF error \in TransientErrors /\ s2.shouldResumeListening /\ e.auto
       THEN setTimeout(s2, Task("chatRetry", ChatCallbacks(e, 0), "", 0))
       ELSE s2

\* speakText's onEnd callback; its onError callback has the same body
VoiceChat_onEnd(s, e) ==
    LET s1 == setIsSpeaking(s, FALSE)
    IN IF s1.shouldResumeListening /\ e.auto
       THEN setTimeout(s1, Task("chatGrace", ChatCallbacks(e, 0), "", 0))
       ELSE s1

-----------------------------------------------------------------------------
(* VoiceService *)

\* onError?.(error) of startListening
InvokeCaptureError(s, cb, error) ==
    IF cb.client = "session" THEN captureOnError(s, cb.e, error)
    ELSE IF cb.client = "chat" THEN VoiceChat_onError(s, cb.e, error)
    ELSE IF cb.id > 0 THEN [s EXCEPT !.heard[cb.id] = @ + 1]
    ELSE s

\* onResult(transcript, true), from recognition.onresult
InvokeCaptureFinal(s, cb, transcript) ==
    IF cb.client = "session" THEN captureOnFinal(s, cb.e, transcript)
    ELSE IF cb.client = "chat" THEN VoiceChat_onResult(s, cb, transcript)
    ELSE IF cb.id > 0 THEN [s EXCEPT !.heard[cb.id] = @ + 1]
    ELSE s

\* options?.onStart?.()
InvokeOnStart(s, u) ==
    IF u.cb.client \in { "session", "chat" } THEN playbackOnStart(s, u.cb.e) ELSE s

\* options?.onEnd?.(), counted as a terminal callback of its speak call
InvokeOnEnd(s, cb, id) ==
    LET s1 == [s EXCEPT !.terminal[id] = @ + 1]
    IN IF cb.client = "session" THEN playbackOnEnd(s1, cb.e)
       ELSE IF cb.client = "chat" THEN VoiceChat_onEnd(s1, cb.e)
       ELSE s1

\* options?.onError?.(..), counted as a terminal callback of its speak call
InvokeOnError(s, cb, id) ==
    LET s1 == [s EXCEPT !.terminal[id] = @ + 1]
    IN IF cb.client = "session" THEN playbackOnError(s1, cb.e)
       ELSE IF cb.client = "chat" THEN VoiceChat_onEnd(s1, cb.e)
       ELSE s1

\* recognition.stop(): the engine stops listening and will fire end
recognition_stop(s) ==
    IF s.recognition = "running"
    THEN setTimeout([s EXCEPT !.recognition = "stopping"], Task("recend", NoCallbacks, "", 0))
    ELSE s

\* A stop that reports 'aborted' to the caller of startListening
stopListening_notify(s) ==
    InvokeCaptureError([recognition_stop(s) EXCEPT !.vsIsListening = FALSE],
                       s.recHandlers, "aborted")

stopListening(s) ==
    IF s.recognitionSupported /\ s.vsIsListening
    THEN [recognition_stop(s) EXCEPT !.vsIsListening = FALSE]
    ELSE s

getIsListening(s) == s.vsIsListening

\* recognition.onerror
recognition_onerror(s, error) ==
    InvokeCaptureError([s EXCEPT !.vsIsListening = FALSE], s.recHandlers, error)

\* recognition.onend
recognition_onend(s) == [s EXCEPT !.vsIsListening = FALSE]

\* A startListening that attaches its handlers only once the engine has started
startListening_keepHandlers(s, cb) ==
    IF ~s.recognitionSupported
    THEN InvokeCaptureError(s, cb, "Speech recognition is not supported in this browser")
    ELSE LET s1 == IF s.vsIsListening
                   THEN [recognition_stop(s) EXCEPT !.vsIsListening = FALSE]
                   ELSE s
         IN IF s1.recognition = "idle"
            THEN [s1 EXCEPT !.recHandlers = cb, !.recognition = "running",
                            !.vsIsListening = TRUE]
            ELSE InvokeCaptureError(s1, cb, "Failed to start speech recognition")

startListening(s, cb) ==
    IF ~s.recognitionSupported
    THEN InvokeCaptureError(s, cb, "Speech recognition is not supported in this browser")
    ELSE LET s1 == IF s.vsIsListening THEN stopListening(s) ELSE s
             s2 == [s1 EXCEPT !.recHandlers = cb]
         IN IF s2.recognition = "idle"
            THEN [s2 EXCEPT !.recognition = "running", !.vsIsListening = TRUE]
            ELSE InvokeCaptureError(s2, cb, "Failed to start speech recognition")

\* this.synthesis.speaking
synthesis_speaking(s) ==
    /\ s.synthQueue # << >>
    /\ s.synthQueue[1].started \/ s.speakingCountsPending

\* this.synthesis.cancel(): every queued utterance is removed and will get its event
RECURSIVE CancelledEvents(_)
CancelledEvents(q) ==
    IF q = << >> THEN << >>
    ELSE << Task("cancelled", Head(q).cb, "", Head(q).id) >> \o CancelledEvents(Tail(q))

synthesis_cancel(s) ==
    [s EXCEPT !.tasks = @ \o CancelledEvents(s.synthQueue), !.synthQueue = << >>]

\* this.synthesis is undefined without speech synthesis: reading its property
\* speaking throws a TypeError
stopSpeaking(s) ==
    IF ~s.synthesisSupported
    THEN [s EXCEPT !.uncaught = TRUE]
    ELSE IF synthesis_speaking(s)
    THEN [synthesis_cancel(s) EXCEPT !.currentUtterance = 0]
    ELSE s

\* utterance.onstart
utterance_onstart(s, u) == InvokeOnStart(s, u)

\* utterance.onend
utterance_onend(s, cb, id) == InvokeOnEnd([s EXCEPT !.currentUtterance = 0], cb, id)

\* An onerror handler that forgets the caller's callback
utterance_onerror_silent(s, cb, id) == [s EXCEPT !.currentUtterance = 0]

\* utterance.onerror
utterance_onerror(s, cb, id) == InvokeOnError([s EXCEPT !.currentUtterance = 0], cb, id)

speak(s, text, cb) ==
    LET id == s.speakCalls + 1
        s0 == [s EXCEPT !.speakCalls = id, !.terminal = Append(@, 0)]
    IN IF ~s0.synthesisSupported
       THEN InvokeOnError(s0, cb, id)
       ELSE LET s1 == stopSpeaking(s0)
            IN [s1 EXCEPT !.currentUtterance = id,
                          !.synthQueue = Append(@, [id |-> id, text |-> text, cb |-> cb,
                                                   started |-> FALSE])]

cleanup(s) == stopSpeaking(stopListening(s))


-----------------------------------------------------------------------------
(* AIService (services/aiService.ts): the triage oracle and its local fallback. *)
(* A call that throws is a result with threw = TRUE.                            *)

\* A SymptomAnalysis
Analysis(priority, recommendation, specialty, followUpQuestions) ==
    [ priority |-> priority, recommendation |-> recommendation,
      specialty |-> specialty, followUpQuestions |-> followUpQuestions ]

\* null: no analysis
NoAnalysis == Analysis("", "", "", << >>)

\* A JSON value that is not a string, in a field the program uses as a string
NonString == "<number>"

Returned(value) == [threw |-> FALSE, value |-> value]
Threw == [threw |-> TRUE, value |-> NoAnalysis]

\* What the oracle call of callAIModel produces: an exception ("throws": transport
\* error, no choices), or a message whose content is missing or empty ("empty"),
\* is not JSON ("malformed"), or is the JSON text of null ("null"), of a number,
\* string, boolean or array ("scalar"), or of an object with the given fields
\* ("" for a missing or empty field) and no followUpQuestions
Reply(kind, priority, recommendation, specialty) ==
    [ kind |-> kind, priority |-> priority, recommendation |-> recommendation,
      specialty |-> specialty, followUpQuestions |-> << >> ]

\* The object reply whose followUpQuestions field is the list questions
WithQuestions(reply, questions) == [reply EXCEPT !.followUpQuestions = questions]

FailedReplies ==
    { Reply(kind, "", "", "") : kind \in { "throws", "empty", "malformed", "null" } }

ObjectReplies ==
    { Reply("object", priority, recommendation, specialty) :
        priority \in { "", "low", "urgent", NonString },
        recommendation \in { "", "Rest and drink fluids." },
        specialty \in { "", "Neurology" } }

QuestionReplies ==
    { WithQuestions(reply, << "How long has it lasted?", "Any allergies?" >>) :
        reply \in ObjectReplies }

\* An object whose priority is a word outside the ones the prompt asks for
UnlistedReply == Reply("object", "critical", "Call a doctor now.", "Cardiology")

OracleReplies == FailedReplies \cup { Reply("scalar", "", "", "") } \cup ObjectReplies

\* The replies of the oracle in a session: one that makes the analysis fall back to
\* the local classifier and one that performAnalysis cannot format
SessionReplies ==
    { Reply("throws", "", "", ""), Reply("object", NonString, "", "") }

\* a || b on strings
OrElse(a, b) == IF a = "" THEN b ELSE a

\* A parseResponse that answers what it cannot parse with its defaults
parseResponse_lenient(reply) ==
    Returned(Analysis(OrElse(reply.priority, "medium"),
                      OrElse(reply.recommendation, "Please consult with a healthcare provider."),
                      OrElse(reply.specialty, "General Practitioner"),
                      reply.followUpQuestions))

parseResponse(reply) ==
    IF reply.kind \in { "empty", "malformed", "null" }
    THEN Threw
    ELSE Returned(Analysis(OrElse(reply.priority, "medium"),
                           OrElse(reply.recommendation, "Please consult with a healthcare provider."),
                           OrElse(reply.specialty, "General Practitioner"),
                           reply.followUpQuestions))

critical ==
    << "chest pain", "severe bleeding", "unconscious", "not breathing", "seizure", "stroke" >>

highPriority ==
    << "fever", "difficulty breathing", "severe pain", "vomiting", "dehydration" >>

\* list.some((m) => symptomsLower.some((s) => s.includes(m)) || descLower.includes(m))
SomeMarker(list, symptomsLower, descLower) ==
    \E i \in 1..Len(list) :
        \/ \E j \in 1..Len(symptomsLower) : includes(symptomsLower[j], list[i])
        \/ includes(descLower, list[i])

\* A classifier that looks for the high priority markers first
getFallbackAnalysis_highFirst(symptomList, desc) ==
    LET symptomsLower == [j \in 1..Len(symptomList) |-> toLowerCase(symptomList[j])]
        descLower == toLowerCase(desc)
    IN IF SomeMarker(highPriority, symptomsLower, descLower)
       THEN Analysis("high", "Please consult with a healthcare provider within 24 hours.",
                     "General Practitioner", << >>)
       ELSE IF SomeMarker(critical, symptomsLower, descLower)
       THEN Analysis("urgent", "Seek immediate emergency medical attention.",
                     "Emergency Medicine", << >>)
       ELSE Analysis("medium", "Please schedule an appointment with a healthcare provider.",
                     "General Practitioner", << >>)

getFallbackAnalysis(symptomList, desc) ==
    LET symptomsLower == [j \in 1..Len(symptomList) |-> toLowerCase(symptomList[j])]
        descLower == toLowerCase(desc)
    IN IF SomeMarker(critical, symptomsLower, descLower)
       THEN Analysis("urgent",
                     "Seek immediate emergency medical attention. Call emergency services or go to the nearest emergency room immediately.",
                     "Emergency Medicine",
                     << "When did these symptoms start?", "Have you experienced this before?",
                        "Are you taking any medications?" >>)
       ELSE IF SomeMarker(highPriority, symptomsLower, descLower)
       THEN Analysis("high",
                     "Please consult with a healthcare provider within 24 hours. Your symptoms require medical attention.",
                     "General Practitioner",
                     << "When did these symptoms begin?", "Have you taken any medication?",
                        "Do you have any chronic conditions?" >>)
       ELSE Analysis("medium",
                     "Please schedule an appointment with a healthcare provider within the next few days to discuss your symptoms.",
                     "General Practitioner",
                     << "How long have you had these symptoms?", "Have the symptoms gotten worse?",
                        "Are you experiencing any other issues?" >>)

\* An analyzeSymptoms that answers an empty response with the defaults of
\* parseResponse
analyzeSymptoms_graded(symptomList, desc, reply) ==
    IF reply.kind = "empty"
    THEN parseResponse_lenient(reply)
    ELSE Returned(getFallbackAnalysis(symptomList, desc))

\* An analyzeSymptoms without its catch
analyzeSymptoms_rethrow(symptomList, desc, reply) ==
    IF reply.kind = "throws" THEN Threw ELSE parseResponse(reply)

\* analyzeSymptoms when the oracle's reply is reply
analyzeSymptoms(symptomList, desc, reply) ==
    LET r == IF reply.kind = "throws" THEN Threw ELSE parseResponse(reply)
    IN IF r.threw THEN Returned(getFallbackAnalysis(symptomList, desc)) ELSE r

\* The record of one analyzeSymptoms call: its arguments, the reply and the result
Call(symptomList, desc, reply) ==
    [ symptoms |-> symptomList, description |-> desc, reply |-> reply,
      result |-> analyzeSymptoms(symptomList, desc, reply) ]

NoCall == [ symptoms |-> << >>, description |-> "", reply |-> Reply("none", "", "", ""),
            result |-> Returned(NoAnalysis) ]

RECURSIVE join(_, _)
\* Array.prototype.join
join(seq, sep) ==
    IF seq = << >> THEN ""
    ELSE IF Len(seq) = 1 THEN seq[1]
    ELSE seq[1] \o sep \o join(Tail(seq), sep)

-----------------------------------------------------------------------------
(* AIVoiceConsultation: the conversation engine *)

symptomKeywords ==
    << "fever", "cough", "cold", "headache", "migraine", "pain", "ache", "aching",
       "nausea", "vomiting", "dizzy", "dizziness", "fatigue", "tired", "weakness",
       "sore", "throat", "runny nose", "congestion", "chills", "sweating",
       "diarrhea", "constipation", "rash", "itching", "swelling", "bleeding",
       "breathing", "chest pain", "stomach", "abdominal", "back pain", "neck pain" >>

InSeq(x, seq) == \E i \in 1..Len(seq) : seq[i] = x

RECURSIVE CollectSymptoms(_, _, _)
\* symptomKeywords.forEach from keyword i on: found grows by each keyword the text includes
CollectSymptoms(lowerText, i, found) ==
    IF i > Len(symptomKeywords) THEN found
    ELSE LET formatted == Capitalize(symptomKeywords[i])
         IN CollectSymptoms(lowerText, i + 1,
                IF includes(lowerText, symptomKeywords[i]) /\ ~InSeq(formatted, found)
                THEN Append(found, formatted)
                ELSE found)

\* An extraction without the negation guard
extractSymptoms_unguarded(text) == CollectSymptoms(toLowerCase(text), 1, << >>)

extractSymptoms(text) ==
    LET lowerText == toLowerCase(text)
    IN IF \/ includes(lowerText, "don't")
          \/ includes(lowerText, "no ")
          \/ includes(lowerText, "nothing")
       THEN << >>
       ELSE CollectSymptoms(lowerText, 1, << >>)

\* A union that keeps only the new labels
UnionSeq_replace(a, b) == b

RECURSIVE UnionSeq(_, _)
\* [...new Set([...a, ...b])]: a, then the elements of b not seen before
UnionSeq(a, b) ==
    IF b = << >> THEN a
    ELSE UnionSeq(IF InSeq(Head(b), a) THEN a ELSE Append(a, Head(b)), Tail(b))

wantsAnalysis(lowerMsg) ==
    \/ includes(lowerMsg, "no") \/ includes(lowerMsg, "nothing")
    \/ includes(lowerMsg, "analyze") \/ includes(lowerMsg, "yes")
    \/ includes(lowerMsg, "that's all") \/ includes(lowerMsg, "nope")

wantsConsultation(lowerMsg) ==
    \/ includes(lowerMsg, "yes") \/ includes(lowerMsg, "create")
    \/ includes(lowerMsg, "sure") \/ includes(lowerMsg, "please")

\* questions[Math.min(turnCount - 1, questions.length - 1)] || questions[questions.length - 1]
questions == << "When did these symptoms start?",
                "How severe would you say they are?",
                "Have you noticed any patterns or triggers?" >>

Min(a, b) == IF a < b THEN a ELSE b

ScriptedQuestion(n) ==
    LET i == Min(n - 1, Len(questions) - 1)
    IN IF i >= 0 THEN questions[i + 1] ELSE questions[Len(questions)]

Response(message, nextStage, await) ==
    [message |-> message, nextStage |-> nextStage, await |-> await]

\* A greeting stage that acknowledges a symptom in every case
greetingStage_acknowledge(hasSymptoms) ==
    Response("I understand you're experiencing", "collecting", FALSE)

\* if (stage === 'greeting')
greetingStage(hasSymptoms) ==
    IF hasSymptoms
    THEN Response("I understand you're experiencing", "collecting", FALSE)
    ELSE Response("Please describe your symptoms. What's bothering you?", "collecting", FALSE)

\* A collecting stage that moves on after three turns whether or not a symptom is
\* recorded
collectingStage_eager(hasSymptoms, n) ==
    IF n >= 3
    THEN Response("Okay, I've noted", "analyzing", FALSE)
    ELSE Response(ScriptedQuestion(n), "collecting", FALSE)

\* if (stage === 'collecting')
collectingStage(hasSymptoms, n) ==
    IF ~hasSymptoms /\ n >= 3
    THEN Response("I'm having trouble identifying specific symptoms", "collecting", FALSE)
    ELSE IF hasSymptoms /\ n >= 3
    THEN Response("Okay, I've noted", "analyzing", FALSE)
    ELSE Response(ScriptedQuestion(n), "collecting", FALSE)

\* if (stage === 'analyzing'); await: the response is that of performAnalysis,
\* which suspends at the oracle call
analyzingStage(lowerMsg, recorded) ==
    IF wantsAnalysis(lowerMsg)
    THEN IF Len(recorded) = 0
         THEN Response("I don't have any symptoms recorded", "collecting", FALSE)
         ELSE Response("analysis", "complete", TRUE)
    ELSE Response("Noted. Any other symptoms?", "analyzing", FALSE)

\* A complete stage that starts the conversation over
completeStage_restart(lowerMsg) ==
    Response("No problem. Let me know if you need anything else.", "collecting", FALSE)

\* if (stage === 'complete')
completeStage(lowerMsg) ==
    IF wantsConsultation(lowerMsg)
    THEN Response("Perfect! I'll create your consultation request now.", "complete", FALSE)
    ELSE Response("No problem. Let me know if you need anything else.", "complete", FALSE)

\* The response to userMessage in state s
getAIResponseForState(s, userMessage) ==
    LET lowerMsg == toLowerCase(userMessage)
        hasSymptoms == Len(s.symptoms) > 0
    IN CASE s.stage = "greeting" -> greetingStage(hasSymptoms)
         [] s.stage = "collecting" -> collectingStage(hasSymptoms, s.turnCount)
         [] s.stage = "analyzing" -> analyzingStage(lowerMsg, s.symptoms)
         [] s.stage = "complete" -> completeStage(lowerMsg)
         [] OTHER -> Response("Could you tell me more?", "collecting", FALSE)

\* The two texts performAnalysis returns: the formatted analysis, or (when formatting
\* or constructing the service throws) the list of recorded symptoms
AnalysisMessages == { "Based on your symptoms, here's my analysis",
                      "I've recorded your symptoms" }

\* performAnalysis from the return of analyzeSymptoms on: the analysis it formats
\* (analysis.priority.toUpperCase() throws when the priority is not a string, and
\* the catch returns the symptom list)
Formatted(r) ==
    IF r.threw \/ r.value.priority = NonString THEN NoAnalysis ELSE r.value

\* A performAnalysis without its catch: handleUserMessage apologises
performAnalysisText_apology(shown) ==
    IF shown = NoAnalysis
    THEN "I apologize, but I encountered an error. Please try again."
    ELSE "Based on your symptoms, here's my analysis"

performAnalysisText(shown) ==
    IF shown = NoAnalysis
    THEN "I've recorded your symptoms"
    ELSE "Based on your symptoms, here's my analysis"


-----------------------------------------------------------------------------
(* AIVoiceConsultation: the handlers.  e is the environment of the closure called. *)
(* The component is mounted only in a user agent with speech synthesis (the mount  *)
(* effect reads its voices), where stopSpeaking does not throw.                    *)

speakText(s, e, text) ==
    speak(setIsSpeaking(s, TRUE), text, SessionCallbacks(e))

\* A handleStartListening that leaves the support check to VoiceService
handleStartListening_unchecked(s, e) ==
    LET s1 == IF e.speaking THEN setIsSpeaking(stopSpeaking(s), FALSE) ELSE s
        s2 == startListening(s1, SessionCallbacks(e))
        s3 == setIsListening(s2, TRUE)
    IN [s3 EXCEPT !.shouldResumeListening = TRUE]

handleStartListening(s, e) ==
    IF ~s.recognitionSupported
    THEN toast_error(s, "Speech recognition is not supported in your browser")
    ELSE LET s1 == IF e.speaking THEN setIsSpeaking(stopSpeaking(s), FALSE) ELSE s
             s2 == startListening(s1, SessionCallbacks(e))
             s3 == setIsListening(s2, TRUE)
         IN [s3 EXCEPT !.shouldResumeListening = TRUE]

handleStopListening(s) ==
    LET s1 == setIsListening(stopListening(s), FALSE)
        s2 == [s1 EXCEPT !.shouldResumeListening = FALSE]
    IN IF s2.processingTimeoutRef
       THEN [clearProcessingTimeout(s2) EXCEPT !.processingTimeoutRef = FALSE]
       ELSE s2

\* A resumption that speaks the response without recording it
handleUserMessageResume_unrecorded(s, e, message, nextStage) ==
    LET s1 == [s EXCEPT !.stage = nextStage, !.shouldResumeListening = e.auto]
    IN setIsProcessing(speakText(s1, e, message), FALSE)

\* handleUserMessage after `await getAIResponseForState(text)`
handleUserMessageResume(s, e, message, nextStage) ==
    LET s1 == [s EXCEPT !.stage = nextStage]
        s2 == addMessage(s1, "ai", message)
        s3 == [s2 EXCEPT !.shouldResumeListening = e.auto]
        s4 == speakText(s3, e, message)
    IN setIsProcessing(s4, FALSE)

\* handleUserMessage up to the point where it suspends (at the oracle call of
\* performAnalysis) or, when the response needs no oracle, to its end
handleUserMessage(s, text, e) ==
    IF trimIsEmpty(text)
    THEN s
    ELSE LET s1 == [s EXCEPT !.shouldResumeListening = FALSE]
             s2 == stopListening(setIsListening(s1, FALSE))
             s3 == IF s2.processingTimeoutRef
                   THEN [clearProcessingTimeout(s2) EXCEPT !.processingTimeoutRef = FALSE]
                   ELSE s2
             s4 == setIsProcessing(addMessage(s3, "user", text), TRUE)
             newSymptoms == extractSymptoms(text)
             s5 == [s4 EXCEPT !.fullTranscript = Append(@, text),
                              !.turnCount = @ + 1,
                              !.symptoms = IF Len(newSymptoms) > 0
                                           THEN UnionSeq(@, newSymptoms)
                                           ELSE @]
             r == getAIResponseForState(s5, text)
         IN IF r.await /\ s5.hasApiKey
            THEN [s5 EXCEPT !.oracleCalls = @ + 1,
                            !.inflight = Append(@, [e |-> e, nextStage |-> r.nextStage,
                                                    symptoms |-> s5.symptoms,
                                                    description |-> join(s5.fullTranscript, " ")])]
            ELSE IF r.await
            THEN handleUserMessageResume([s5 EXCEPT !.shownAnalysis = NoAnalysis], e,
                                         performAnalysisText(NoAnalysis), r.nextStage)
            ELSE handleUserMessageResume(s5, e, r.message, r.nextStage)

\* The oracle call of the suspended handleUserMessage i returns reply: analyzeSymptoms
\* and performAnalysis return, and handleUserMessage resumes
performAnalysisResume(s, i, reply) ==
    LET p == s.inflight[i]
        call == Call(p.symptoms, p.description, reply)
        shown == Formatted(call.result)
        s1 == [s EXCEPT !.inflight = RemoveAt(@, i), !.lastAnalysis = call,
                        !.shownAnalysis = shown]
    IN handleUserMessageResume(s1, p.e, performAnalysisText(shown), p.nextStage)

\* A Skip AI that starts the conversation over
handleStopSpeaking_restart(s, e) ==
    [setIsSpeaking(stopSpeaking(s), FALSE) EXCEPT !.stage = "greeting", !.turnCount = 0,
                                                 !.symptoms = << >>, !.fullTranscript = << >>]

handleStopSpeaking(s, e) ==
    LET s1 == setIsSpeaking(stopSpeaking(s), FALSE)
    IN IF e.auto /\ s1.stage # "complete"
       THEN setTimeout(s1, Task("skip", SessionCallbacks(e), "", 0))
       ELSE s1

\* The unmount cleanup of the mount effect
unmount(s) ==
    LET s1 == cleanup(s)
        s2 == clearProcessingTimeout(s1)
    IN [s2 EXCEPT !.mounted = FALSE]

\* onClose(): the parent stops rendering the component, which unmounts it
onClose(s) == IF s.mounted THEN unmount(s) ELSE s

\* The page's onSubmitSymptoms, up to the point where it suspends at the oracle call;
\* without an API key getAIService throws and the catch reports the failure
handleVoiceConsultationSubmit(s, symptomList, desc) ==
    LET s1 == [s EXCEPT !.selectedSymptoms = symptomList, !.description = desc]
    IN IF s1.hasApiKey
       THEN [s1 EXCEPT !.analyzing = TRUE, !.oracleCalls = @ + 1]
       ELSE toast_error(s1, "Failed to create voice consultation")

\* handleVoiceConsultationSubmit after `await aiService.analyzeSymptoms(symptoms, desc)`
handleVoiceConsultationSubmitResume(s, reply) ==
    LET call == Call(s.selectedSymptoms, s.description, reply)
    IN [s EXCEPT !.lastAnalysis = call,
                 !.aiAnalysis = IF call.result.threw THEN @ ELSE call.result.value,
                 !.analyzing = FALSE]

\* A hand-off that leaves capture, the resume intent and the timers to the unmount
\* cleanup
handleCreateConsultation_bare(s) ==
    onClose(handleVoiceConsultationSubmit([s EXCEPT !.submitted = @ + 1],
                                          s.symptoms, join(s.fullTranscript, "\n\n")))

handleCreateConsultation(s) ==
    LET s1 == handleStopListening([s EXCEPT !.shouldResumeListening = FALSE])
        s2 == handleVoiceConsultationSubmit([s1 EXCEPT !.submitted = @ + 1],
                                            s1.symptoms, join(s1.fullTranscript, "\n\n"))
    IN onClose(s2)

toggleAutoListen(s, e) ==
    LET newValue == ~e.auto
        s1 == setAutoResumeListen(s, newValue)
    IN IF ~newValue
       THEN handleStopListening([s1 EXCEPT !.shouldResumeListening = FALSE])
       ELSE s1

\* The callbacks of the timers
debounceTimeout(s, t) ==
    IF Len(t.text) > 0 /\ getIsListening(s)
    THEN handleUserMessage(s, t.text, t.cb.e)
    ELSE s

graceTimeout(s, t) ==
    IF s.shouldResumeListening /\ ~t.cb.e.processing
    THEN handleStartListening(s, t.cb.e)
    ELSE s

retryTimeout(s, t) ==
    IF s.shouldResumeListening /\ ~t.cb.e.speaking /\ ~t.cb.e.processing
    THEN handleStartListening(s, t.cb.e)
    ELSE s

skipTimeout(s, t) == handleStartListening(s, t.cb.e)


-----------------------------------------------------------------------------
(* VoiceChat (components/VoiceChat.tsx, src/unnamed/part_000): the handlers.  It   *)
(* keeps no handle of its timers and clears none.                                  *)

\* An id that neither the attached capture callbacks nor a pending debounce timer
\* carries: the new handleStartListening call and its fresh finalTranscriptRef
NewListenCall(s) ==
    CHOOSE id \in 1..(Len(s.tasks) + 2) :
        /\ s.recHandlers.id # id
        /\ \A i \in 1..Len(s.tasks) : s.tasks[i].id # id

VoiceChat_speakText(s, e, text) ==
    speak(setIsSpeaking(s, TRUE), text, ChatCallbacks(e, 0))

VoiceChat_handleStartListening(s, e) ==
    IF ~s.recognitionSupported
    THEN toast_error(s, "Speech recognition is not supported in your browser")
    ELSE LET s1 == IF e.speaking THEN setIsSpeaking(stopSpeaking(s), FALSE) ELSE s
             s2 == startListening(s1, ChatCallbacks(e, NewListenCall(s1)))
             s3 == setIsListening(s2, TRUE)
         IN [s3 EXCEPT !.shouldResumeListening = TRUE]

VoiceChat_handleStopListening(s) ==
    [setIsListening(stopListening(s), FALSE) EXCEPT !.shouldResumeListening = FALSE]

\* getAIResponse: the canned answer chosen by keyword
getAIResponse(userMessage) ==
    LET lowerMessage == toLowerCase(userMessage)
    IN CASE includes(lowerMessage, "symptom") \/ includes(lowerMessage, "feel")
              \/ includes(lowerMessage, "pain") ->
                "I understand you're experiencing some symptoms. To provide you with the best assistance, could you please describe your symptoms in detail? For example, where do you feel pain, when did it start, and how severe is it?"
         [] includes(lowerMessage, "doctor") \/ includes(lowerMessage, "appointment") ->
                "I can help you connect with a doctor. Would you like me to help you create a consultation request? Please describe your symptoms and I'll recommend the appropriate specialist."
         [] includes(lowerMessage, "hello") \/ includes(lowerMessage, "hi")
              \/ includes(lowerMessage, "hey") ->
                "Hello! I'm your AI health assistant. How can I help you today? You can tell me about any symptoms you're experiencing, or ask health-related questions."
         [] includes(lowerMessage, "thank") ->
                "You're welcome! Is there anything else I can help you with today?"
         [] includes(lowerMessage, "bye") \/ includes(lowerMessage, "goodbye") ->
                "Goodbye! Take care of your health. Feel free to come back anytime you need assistance."
         [] OTHER ->
                "I'm here to help with your health concerns. Could you please provide more details about what you'd like to discuss? You can describe any symptoms you're experiencing or ask health-related questions."

\* handleUserMessage.  getAIResponse resolves at once and cannot throw: the handler
\* resumes before any other event is dispatched, and its catch branch never runs
VoiceChat_handleUserMessage(s, text, e) ==
    IF trimIsEmpty(text)
    THEN s
    ELSE LET s1 == [s EXCEPT !.shouldResumeListening = FALSE]
             s2 == stopListening(setIsListening(s1, FALSE))
             s3 == setIsProcessing(addMessage(s2, "user", text), TRUE)
             response == getAIResponse(text)
             s4 == [addMessage(s3, "ai", response) EXCEPT !.shouldResumeListening = e.auto]
             s5 == IF e.speaks THEN VoiceChat_speakText(s4, e, response)
                   ELSE IF e.auto
                   THEN setTimeout(s4, Task("chatResume", ChatCallbacks(e, 0), "", 0))
                   ELSE s4
         IN setIsProcessing(s5, FALSE)

VoiceChat_handleStopSpeaking(s, e) ==
    LET s1 == setIsSpeaking(stopSpeaking(s), FALSE)
    IN IF e.auto
       THEN setTimeout(s1, Task("chatSkip", ChatCallbacks(e, 0), "", 0))
       ELSE s1

handleReplay(s, e, text) ==
    IF e.speaking
    THEN VoiceChat_handleStopSpeaking(s, e)
    ELSE VoiceChat_speakText([s EXCEPT !.shouldResumeListening = e.auto], e, text)

\* toggleAutoListen (its toast.success is not an error and is not recorded)
VoiceChat_toggleAutoListen(s, e) ==
    LET newValue == ~e.auto
        s1 == setAutoResumeListen(s, newValue)
    IN IF ~newValue
       THEN VoiceChat_handleStopListening([s1 EXCEPT !.shouldResumeListening = FALSE])
       ELSE s1

\* The auto-speak button: setAutoSpeak(!autoSpeak)
setAutoSpeak(s, v) == IF s.mounted THEN [s EXCEPT !.autoSpeak = v] ELSE s

\* The unmount cleanup of the mount effect: voiceService.cleanup() and nothing else
VoiceChat_unmount(s) == IF s.mounted THEN [cleanup(s) EXCEPT !.mounted = FALSE] ELSE s

\* The callbacks of the timers
VoiceChat_debounceTimeout(s, t) ==
    IF Len(t.text) > 0 /\ getIsListening(s)
    THEN VoiceChat_handleUserMessage(
             [s EXCEPT !.tasks = AssignFinalTranscriptRef(@, t.id, "")], t.text, t.cb.e)
    ELSE s

\* after a response has been spoken (800 ms) or has not been spoken (500 ms)
VoiceChat_resumeTimeout(s, t) ==
    IF s.shouldResumeListening /\ ~t.cb.e.processing
    THEN VoiceChat_handleStartListening(s, t.cb.e)
    ELSE s

VoiceChat_retryTimeout(s, t) ==
    IF s.shouldResumeListening /\ ~t.cb.e.speaking /\ ~t.cb.e.processing
    THEN VoiceChat_handleStartListening(s, t.cb.e)
    ELSE s

VoiceChat_skipTimeout(s, t) == VoiceChat_handleStartListening(s, t.cb.e)


-----------------------------------------------------------------------------
(* States and steps *)

\* The program state as one record
St ==
    [ vsIsListening |-> vsIsListening, currentUtterance |-> currentUtterance,
      recognition |-> recognition, recHandlers |-> recHandlers,
      synthQueue |-> synthQueue, recognitionSupported |-> recognitionSupported,
      synthesisSupported |-> synthesisSupported,
      speakingCountsPending |-> speakingCountsPending,
      isListening |-> isListening, isSpeaking |-> isSpeaking,
      isProcessing |-> isProcessing, autoResumeListen |-> autoResumeListen,
      messages |-> messages, autoSpeak |-> autoSpeak, stage |-> stage, turnCount |-> turnCount,
      symptoms |-> symptoms, fullTranscript |-> fullTranscript,
      shouldResumeListening |-> shouldResumeListening,
      processingTimeoutRef |-> processingTimeoutRef, mounted |-> mounted,
      submitted |-> submitted, tasks |-> tasks, inflight |-> inflight,
      speakCalls |-> speakCalls, terminal |-> terminal,
      selectedSymptoms |-> selectedSymptoms, description |-> description,
      analyzing |-> analyzing, aiAnalysis |-> aiAnalysis,
      hasApiKey |-> hasApiKey, oracleCalls |-> oracleCalls,
      lastAnalysis |-> lastAnalysis, shownAnalysis |-> shownAnalysis,
      toasts |-> toasts, heard |-> heard, uncaught |-> uncaught ]

\* The closures of the latest render, which the buttons call
CurrentEnv == Env(autoResumeListen, isSpeaking, isProcessing)

UserSteps == { "speak", "stopListening", "skip", "create", "toggle", "close",
               "replay", "toggleSpeak" }
FaultSteps == { "captureError", "captureLapse", "captureEnd", "lateFinal", "playbackError" }

\* The program moves to state n by a step of kind kind
Step(n, kind) ==
    /\ clicks' = IF kind \in UserSteps THEN clicks + 1 ELSE clicks
    /\ faults' = IF kind \in FaultSteps THEN faults + 1 ELSE faults
    /\ budget' = budget
    /\ clicks' <= budget.clicks
    /\ faults' <= budget.faults
    /\ Len(n.tasks) <= MaxTasks
    /\ n.turnCount <= budget.turns
    /\ Len(n.inflight) <= MaxInflight
    /\ vsIsListening' = n.vsIsListening
    /\ currentUtterance' = n.currentUtterance
    /\ recognition' = n.recognition
    /\ recHandlers' = n.recHandlers
    /\ synthQueue' = n.synthQueue
    /\ recognitionSupported' = n.recognitionSupported
    /\ synthesisSupported' = n.synthesisSupported
    /\ speakingCountsPending' = n.speakingCountsPending
    /\ isListening' = n.isListening
    /\ isSpeaking' = n.isSpeaking
    /\ isProcessing' = n.isProcessing
    /\ autoResumeListen' = n.autoResumeListen
    /\ messages' = n.messages
    /\ autoSpeak' = n.autoSpeak
    /\ stage' = n.stage
    /\ turnCount' = n.turnCount
    /\ symptoms' = n.symptoms
    /\ fullTranscript' = n.fullTranscript
    /\ shouldResumeListening' = n.shouldResumeListening
    /\ processingTimeoutRef' = n.processingTimeoutRef
    /\ mounted' = n.mounted
    /\ submitted' = n.submitted
    /\ tasks' = n.tasks
    /\ inflight' = n.inflight
    /\ speakCalls' = n.speakCalls
    /\ terminal' = n.terminal
    /\ selectedSymptoms' = n.selectedSymptoms
    /\ description' = n.description
    /\ analyzing' = n.analyzing
    /\ aiAnalysis' = n.aiAnalysis
    /\ hasApiKey' = n.hasApiKey
    /\ oracleCalls' = n.oracleCalls
    /\ lastAnalysis' = n.lastAnalysis
    /\ shownAnalysis' = n.shownAnalysis
    /\ toasts' = n.toasts
    /\ heard' = n.heard
    /\ uncaught' = n.uncaught
    /\ armed' = CASE kind = "toggle" -> n.autoResumeListen
                  [] kind = "speak" -> TRUE
                  [] OTHER -> armed
    /\ halted' = CASE kind = "stopListening" -> TRUE
                   [] kind \in UserSteps -> FALSE
                   [] OTHER -> halted
    /\ analysed' = IF kind = "clientReanalyze" THEN Append(analysed, n.lastAnalysis)
                   ELSE analysed
    /\ stale' = CASE ~HasTask(n.tasks, "debounce") -> FALSE
                  [] kind \in { "final", "lateFinal" } -> n.recognition # "running"
                  [] OTHER -> stale \/ n.recognition # "running"
    /\ lapsed' = CASE kind \in UserSteps -> FALSE
                   [] kind = "captureLapse" -> autoResumeListen /\ shouldResumeListening
                   [] n.recognition = "running" -> FALSE
                   [] OTHER -> lapsed

\* cycle after a step to n; id: the speak call whose utterance got its terminal
\* event in the step (0: none)
Cycle(n, kind, id) ==
    CASE kind \in UserSteps -> "idle"
      [] n.turnCount # turnCount -> "answering"
      [] cycle = "due" /\ n.recognition = "running" -> "idle"
      [] cycle = "answering" /\ id > 1 /\ id = n.speakCalls /\ n.inflight = << >> ->
            IF n.mounted /\ n.autoResumeListen /\ n.stage # "complete"
               /\ n.recognition # "running"
            THEN "due" ELSE "idle"
      [] OTHER -> cycle

\* A step that delivers the terminal event of the utterance of speak call id
UtteranceEvent(n, kind, id) ==
    /\ Step(n, kind)
    /\ finals' = IF HasTask(n.tasks, "debounce") THEN finals ELSE 0
    /\ lastFinal' = IF HasTask(n.tasks, "debounce") THEN lastFinal ELSE ""
    /\ cycle' = Cycle(n, kind, id)

\* Any other step that is not the arrival of a final transcript
Move(n, kind) == UtteranceEvent(n, kind, 0)

\* The state before the first render's mount effect has run
Fresh(recSupported, synSupported, countsPending) ==
    [ vsIsListening |-> FALSE, currentUtterance |-> 0,
      recognition |-> "idle", recHandlers |-> NoCallbacks,
      synthQueue |-> << >>, recognitionSupported |-> recSupported,
      synthesisSupported |-> synSupported,
      speakingCountsPending |-> countsPending,
      isListening |-> FALSE, isSpeaking |-> FALSE,
      isProcessing |-> FALSE, autoResumeListen |-> TRUE,
      messages |-> << >>, autoSpeak |-> TRUE, stage |-> "greeting", turnCount |-> 0,
      symptoms |-> << >>, fullTranscript |-> << >>,
      shouldResumeListening |-> FALSE,
      processingTimeoutRef |-> FALSE, mounted |-> TRUE,
      submitted |-> 0, tasks |-> << >>, inflight |-> << >>,
      speakCalls |-> 0, terminal |-> << >>,
      selectedSymptoms |-> << >>, description |-> "",
      analyzing |-> FALSE, aiAnalysis |-> NoAnalysis,
      hasApiKey |-> TRUE, oracleCalls |-> 0,
      lastAnalysis |-> NoCall, shownAnalysis |-> NoAnalysis,
      toasts |-> << >>, heard |-> << >>, uncaught |-> FALSE ]

greeting == "Hello! I'm your AI health assistant. What brings you here today?"

\* The mount effect: the greeting is recorded and spoken
mountEffect(s) == speakText(addMessage(s, "ai", greeting), InitialEnv, greeting)

Budget(c, f, t, replies) == [clicks |-> c, faults |-> f, turns |-> t, oracle |-> replies]

InitFrom(n) ==
    /\ vsIsListening = n.vsIsListening
    /\ currentUtterance = n.currentUtterance
    /\ recognition = n.recognition
    /\ recHandlers = n.recHandlers
    /\ synthQueue = n.synthQueue
    /\ recognitionSupported = n.recognitionSupported
    /\ synthesisSupported = n.synthesisSupported
    /\ speakingCountsPending = n.speakingCountsPending
    /\ isListening = n.isListening
    /\ isSpeaking = n.isSpeaking
    /\ isProcessing = n.isProcessing
    /\ autoResumeListen = n.autoResumeListen
    /\ messages = n.messages
    /\ autoSpeak = n.autoSpeak
    /\ stage = n.stage
    /\ turnCount = n.turnCount
    /\ symptoms = n.symptoms
    /\ fullTranscript = n.fullTranscript
    /\ shouldResumeListening = n.shouldResumeListening
    /\ processingTimeoutRef = n.processingTimeoutRef
    /\ mounted = n.mounted
    /\ submitted = n.submitted
    /\ tasks = n.tasks
    /\ inflight = n.inflight
    /\ speakCalls = n.speakCalls
    /\ terminal = n.terminal
    /\ selectedSymptoms = n.selectedSymptoms
    /\ description = n.description
    /\ analyzing = n.analyzing
    /\ aiAnalysis = n.aiAnalysis
    /\ hasApiKey = n.hasApiKey
    /\ oracleCalls = n.oracleCalls
    /\ lastAnalysis = n.lastAnalysis
    /\ shownAnalysis = n.shownAnalysis
    /\ toasts = n.toasts
    /\ heard = n.heard
    /\ uncaught = n.uncaught
    /\ finals = 0
    /\ lastFinal = ""
    /\ cycle = "idle"
    /\ armed = TRUE
    /\ halted = FALSE
    /\ lapsed = FALSE
    /\ stale = FALSE
    /\ analysed = << >>
    /\ clicks = 0
    /\ faults = 0

\* A session: the component has been mounted in a user agent that has speech
\* synthesis (the mount effect reads its voices)
Init ==
    /\ \E recSupported \in BOOLEAN, countsPending \in BOOLEAN :
          InitFrom(mountEffect(Fresh(recSupported, TRUE, countsPending)))
    /\ budget = Budget(MaxClicks, MaxFaults, MaxTurns, SessionReplies)

-----------------------------------------------------------------------------
(* The user *)

\* The Speak button: shown when not listening, disabled while processing or speaking
ClickSpeak ==
    /\ mounted /\ ~isListening /\ ~(isProcessing \/ isSpeaking)
    /\ Move(handleStartListening(St, CurrentEnv), "speak")

\* The Stop Listening button: shown when listening
ClickStopListening ==
    /\ mounted /\ isListening
    /\ Move(handleStopListening(St), "stopListening")

\* The Skip AI button: shown when speaking
ClickSkipAI ==
    /\ mounted /\ isSpeaking
    /\ Move(handleStopSpeaking(St, CurrentEnv), "skip")

\* The Create Consultation button: shown when complete with symptoms
ClickCreateConsultation ==
    /\ mounted /\ stage = "complete" /\ Len(symptoms) > 0
    /\ Move(handleCreateConsultation(St), "create")

ClickToggleAutoListen ==
    /\ mounted
    /\ Move(toggleAutoListen(St, CurrentEnv), "toggle")

\* The X button
ClickClose ==
    /\ mounted
    /\ Move(onClose(St), "close")

-----------------------------------------------------------------------------
(* The user agent *)

ErrorKinds == { "no-speech", "aborted", "network", "not-allowed" }

\* recognition.onresult delivers the final transcript text
Final(text) ==
    /\ Step(InvokeCaptureFinal(St, recHandlers, text),
            IF recognition = "stopping" THEN "lateFinal" ELSE "final")
    /\ finals' = Min(finals + 1, 2)
    /\ lastFinal' = text
    /\ cycle' = Cycle(InvokeCaptureFinal(St, recHandlers, text), "final", 0)

\* A final result: while listening, or for the audio already received when stop()
\* was called
RecognitionFinal ==
    /\ recognition \in { "running", "stopping" }
    /\ \E text \in SessionUtterances : Final(text)

\* The engine fails with error: the error event, then the end event
RecognitionErrorOf(error) ==
    Move(recognition_onend(recognition_onerror([St EXCEPT !.recognition = "idle"], error)),
         IF error \in TransientErrors THEN "captureLapse" ELSE "captureError")

RecognitionError ==
    /\ recognition = "running"
    /\ \E error \in ErrorKinds : RecognitionErrorOf(error)

\* The engine ends the session on its own
RecognitionEnds ==
    /\ recognition = "running"
    /\ Move(recognition_onend([St EXCEPT !.recognition = "idle"]), "captureEnd")

\* The queue's head starts being spoken; events are delivered in order, so the
\* events of cancelled utterances come first
SynthesisStarts ==
    /\ synthQueue # << >>
    /\ ~synthQueue[1].started
    /\ ~HasTask(tasks, "cancelled")
    /\ Move(utterance_onstart([St EXCEPT !.synthQueue[1].started = TRUE], synthQueue[1]),
            "playbackStart")

\* The utterance being spoken completes
SynthesisEnds ==
    /\ synthQueue # << >>
    /\ synthQueue[1].started
    /\ UtteranceEvent(utterance_onend([St EXCEPT !.synthQueue = Tail(@)],
                                      synthQueue[1].cb, synthQueue[1].id),
                      "playbackEnd", synthQueue[1].id)

\* The utterance at the head of the queue fails
SynthesisFails ==
    /\ synthQueue # << >>
    /\ UtteranceEvent(utterance_onerror([St EXCEPT !.synthQueue = Tail(@)],
                                        synthQueue[1].cb, synthQueue[1].id),
                      "playbackError", synthQueue[1].id)

\* St without its pending task i
Without(i) == [St EXCEPT !.tasks = RemoveAt(@, i)]

Runnable(i, k) == i \in 1..Len(tasks) /\ tasks[i].k = k /\ CanRun(tasks, i)

DebounceFires ==
    \E i \in 1..Len(tasks) :
        /\ Runnable(i, "debounce")
        /\ Move(debounceTimeout(Without(i), tasks[i]), "debounce")

GraceFires ==
    \E i \in 1..Len(tasks) :
        /\ Runnable(i, "grace")
        /\ Move(graceTimeout(Without(i), tasks[i]), "grace")

RetryFires ==
    \E i \in 1..Len(tasks) :
        /\ Runnable(i, "retry")
        /\ Move(retryTimeout(Without(i), tasks[i]), "retry")

SkipFires ==
    \E i \in 1..Len(tasks) :
        /\ Runnable(i, "skip")
        /\ Move(skipTimeout(Without(i), tasks[i]), "skipTimer")

\* The terminal event of a cancelled utterance: error, or end
CancelledEventFires ==
    \E i \in 1..Len(tasks) :
        /\ Runnable(i, "cancelled")
        /\ \/ UtteranceEvent(utterance_onerror(Without(i), tasks[i].cb, tasks[i].id),
                             "cancelled", tasks[i].id)
           \/ UtteranceEvent(utterance_onend(Without(i), tasks[i].cb, tasks[i].id),
                             "cancelled", tasks[i].id)

\* The end event of a stopped recognition
RecognitionEndFires ==
    \E i \in 1..Len(tasks) :
        /\ Runnable(i, "recend")
        /\ Move(recognition_onend([Without(i) EXCEPT !.recognition = "idle"]), "recend")

\* The oracle call of a suspended handleUserMessage returns, and performAnalysis
\* returns one of its two texts
OracleReturns ==
    \E i \in 1..Len(inflight), reply \in budget.oracle :
        Move(performAnalysisResume(St, i, reply), "resume")

\* The oracle call of the page's handleVoiceConsultationSubmit returns
SubmitOracleReturns ==
    /\ analyzing
    /\ \E reply \in budget.oracle :
          Move(handleVoiceConsultationSubmitResume(St, reply), "submitResume")

Next ==
    \/ ClickSpeak
    \/ ClickStopListening
    \/ ClickSkipAI
    \/ ClickCreateConsultation
    \/ ClickToggleAutoListen
    \/ ClickClose
    \/ RecognitionFinal
    \/ RecognitionError
    \/ RecognitionEnds
    \/ SynthesisStarts
    \/ SynthesisEnds
    \/ SynthesisFails
    \/ DebounceFires
    \/ GraceFires
    \/ RetryFires
    \/ SkipFires
    \/ CancelledEventFires
    \/ RecognitionEndFires
    \/ OracleReturns
    \/ SubmitOracleReturns

Spec == Init /\ [][Next]_vars

-----------------------------------------------------------------------------
(* A scripted session: the user presses Speak and then says one utterance each   *)
(* time the channel listens; the devices do not fail and no other button is used *)

ScriptedFinal ==
    /\ recognition = "running"
    /\ ~HasTask(tasks, "debounce")
    /\ \E text \in ScriptedUtterances : Final(text)

ScriptedNext ==
    \/ ClickSpeak
    \/ ScriptedFinal
    \/ SynthesisStarts
    \/ SynthesisEnds
    \/ DebounceFires
    \/ GraceFires
    \/ RecognitionEndFires
    \/ OracleReturns

ScriptedSpec == Init /\ [][ScriptedNext]_vars

-----------------------------------------------------------------------------
(* The scenarios: a session on reliable devices in which the user presses Speak  *)
(* once and says the scenarios' utterances in any order                          *)

ScenarioInit ==
    /\ \E countsPending \in BOOLEAN : InitFrom(mountEffect(Fresh(TRUE, TRUE, countsPending)))
    /\ budget = Budget(1, 0, MaxScenarioTurns, SessionReplies)

ScenarioFinal ==
    /\ recognition = "running"
    /\ ~HasTask(tasks, "debounce")
    /\ \E text \in ScenarioUtterances : Final(text)

ScenarioNext ==
    \/ ClickSpeak
    \/ ScenarioFinal
    \/ SynthesisStarts
    \/ SynthesisEnds
    \/ DebounceFires
    \/ GraceFires
    \/ RecognitionEndFires
    \/ OracleReturns

ScenarioSpec == ScenarioInit /\ [][ScenarioNext]_vars

-----------------------------------------------------------------------------
(* Further symptoms: a session on reliable devices in which the user presses     *)
(* Speak once, reports a cough, and goes on to report other complaints           *)

FurtherSymptomReports == { "I also noticed a rash", "my nose is runny" }

FurtherUtterances == { "I have a cough", "I feel warm as well" } \cup FurtherSymptomReports

FurtherFinal ==
    /\ recognition = "running"
    /\ ~HasTask(tasks, "debounce")
    /\ \E text \in FurtherUtterances : Final(text)

FurtherNext ==
    \/ ClickSpeak
    \/ FurtherFinal
    \/ SynthesisStarts
    \/ SynthesisEnds
    \/ DebounceFires
    \/ GraceFires
    \/ RecognitionEndFires
    \/ OracleReturns

FurtherSpec == ScenarioInit /\ [][FurtherNext]_vars

-----------------------------------------------------------------------------
(* Triage: a scripted session with or without an API key, every reply of the     *)
(* oracle, and the Create Consultation button, which hands the session over to   *)
(* the page                                                                      *)

TriageInit ==
    /\ \E key \in BOOLEAN :
          InitFrom(mountEffect([Fresh(TRUE, TRUE, TRUE) EXCEPT !.hasApiKey = key]))
    /\ budget = Budget(MaxClicks, 0, MaxScenarioTurns, OracleReplies)

TriageNext ==
    \/ ClickSpeak
    \/ ClickCreateConsultation
    \/ ScriptedFinal
    \/ SynthesisStarts
    \/ SynthesisEnds
    \/ DebounceFires
    \/ GraceFires
    \/ CancelledEventFires
    \/ RecognitionEndFires
    \/ OracleReturns
    \/ SubmitOracleReturns

TriageSpec == TriageInit /\ [][TriageNext]_vars

-----------------------------------------------------------------------------
(* AIService used directly: a client that calls analyzeSymptoms with the symptom *)
(* list and the narrative it holds, for every reply of the oracle                *)

ProbeSymptoms ==
    { << >>, << "Fever" >>, << "Headache" >>, << "Chest pain", "Vomiting" >>,
      << "Severe Bleeding" >>, << "Cough", "High FEVER" >> }

ProbeNarratives ==
    { "", "I feel tired", "I had a SEIZURE and a fever", "severe pain in my knee",
      "he is Not Breathing", "mild dehydration" }

AnalysisInit ==
    /\ \E symptomList \in ProbeSymptoms, desc \in ProbeNarratives :
          InitFrom([Fresh(FALSE, FALSE, FALSE) EXCEPT !.mounted = FALSE,
                                                     !.selectedSymptoms = symptomList,
                                                     !.description = desc])
    /\ budget = Budget(0, 0, 0, OracleReplies \cup QuestionReplies \cup { UnlistedReply })

\* await aiService.analyzeSymptoms(selectedSymptoms, description), the oracle
\* replying reply
clientAnalyze(s, reply) ==
    [s EXCEPT !.oracleCalls = @ + 1,
              !.lastAnalysis = Call(s.selectedSymptoms, s.description, reply)]

ClientAnalyze ==
    /\ oracleCalls < MaxAnalyses
    /\ \E reply \in budget.oracle : Move(clientAnalyze(St, reply), "clientAnalyze")

AnalysisSpec == AnalysisInit /\ [][ClientAnalyze]_vars

-----------------------------------------------------------------------------
(* AIService with an oracle that always fails: a client that calls              *)
(* analyzeSymptoms several times and changes its arguments between the calls    *)

FallbackSymptoms == { << "Fever" >>, << "Headache" >> }

FallbackNarratives == { "I feel tired", "he is Not Breathing" }

FallbackInit ==
    /\ \E symptomList \in FallbackSymptoms, desc \in FallbackNarratives :
          InitFrom([Fresh(FALSE, FALSE, FALSE) EXCEPT !.mounted = FALSE,
                                                     !.selectedSymptoms = symptomList,
                                                     !.description = desc])
    /\ budget = Budget(0, 0, 0, FailedReplies)

\* The client takes other arguments for its next call
ClientSelects ==
    \E symptomList \in FallbackSymptoms, desc \in FallbackNarratives :
        /\ << symptomList, desc >> # << selectedSymptoms, description >>
        /\ Move([St EXCEPT !.selectedSymptoms = symptomList, !.description = desc],
                "clientSelects")

ClientReanalyze ==
    /\ oracleCalls < MaxFallbackCalls
    /\ \E reply \in budget.oracle : Move(clientAnalyze(St, reply), "clientReanalyze")

FallbackNext ==
    \/ ClientSelects
    \/ ClientReanalyze

FallbackSpec == FallbackInit /\ [][FallbackNext]_vars

-----------------------------------------------------------------------------
(* A short session on reliable devices: the user may press more buttons, the     *)
(* devices do not fail and deliver no result after stop()                        *)

ReliableInit ==
    /\ \E countsPending \in BOOLEAN : InitFrom(mountEffect(Fresh(TRUE, TRUE, countsPending)))
    /\ budget = Budget(MaxPresses, 0, MaxShortTurns, SessionReplies)

ReliableNext ==
    \/ ClickSpeak
    \/ ClickStopListening
    \/ ClickSkipAI
    \/ ClickToggleAutoListen
    \/ RecognitionFinal
    \/ SynthesisStarts
    \/ SynthesisEnds
    \/ DebounceFires
    \/ GraceFires
    \/ SkipFires
    \/ CancelledEventFires
    \/ RecognitionEndFires

ReliableSpec == ReliableInit /\ [][ReliableNext]_vars

-----------------------------------------------------------------------------
(* VoiceService used directly: a client that calls speak and stopSpeaking with   *)
(* callbacks of its own, in a user agent with or without speech synthesis        *)

VoiceInit ==
    /\ \E recSupported \in BOOLEAN, synSupported \in BOOLEAN, countsPending \in BOOLEAN :
          InitFrom([Fresh(recSupported, synSupported, countsPending) EXCEPT !.mounted = FALSE])
    /\ budget = Budget(0, MaxFaults, 0, SessionReplies)

ClientSpeak ==
    /\ speakCalls < MaxSpeakCalls
    /\ Move(speak(St, "text", BareCallbacks), "clientSpeak")

\* stopSpeaking() reads synthesis.speaking, which throws without speech synthesis
ClientStopSpeaking ==
    /\ synthesisSupported
    /\ Move(stopSpeaking(St), "clientStopSpeaking")

VoiceNext ==
    \/ ClientSpeak
    \/ ClientStopSpeaking
    \/ SynthesisStarts
    \/ SynthesisEnds
    \/ SynthesisFails
    \/ CancelledEventFires

\* The user agent dispatches every queued event, starts the utterance at the head
\* of its queue and finishes (or fails) the utterance it is speaking
VoiceFairSpec ==
    /\ VoiceInit /\ [][VoiceNext]_vars
    /\ WF_vars(SynthesisStarts)
    /\ WF_vars(SynthesisEnds)
    /\ WF_vars(CancelledEventFires)

-----------------------------------------------------------------------------
(* VoiceService used directly, capture and playback: a client that calls         *)
(* startListening with callbacks of its own, stopListening, speak, stopSpeaking  *)
(* and cleanup in any order, on devices that may fail                            *)

ClientStartListening ==
    /\ Len(heard) < MaxListenCalls
    /\ Move(startListening([St EXCEPT !.heard = Append(@, 0)], ClientCallbacks(Len(heard) + 1)),
            "clientStartListening")

ClientStopListening == Move(stopListening(St), "clientStopListening")

ClientHalt == Move(stopSpeaking(St), "clientHalt")

ClientCleanup == Move(cleanup(St), "clientCleanup")

\* recognition.onresult delivers a final transcript to the client's onResult
ClientHears ==
    /\ recognition \in { "running", "stopping" }
    /\ recHandlers.id > 0
    /\ heard[recHandlers.id] < MaxHeard
    /\ Final("text")

ServiceNext ==
    \/ ClientStartListening
    \/ ClientStopListening
    \/ ClientSpeak
    \/ ClientHalt
    \/ ClientCleanup
    \/ ClientHears
    \/ RecognitionError
    \/ RecognitionEnds
    \/ RecognitionEndFires
    \/ SynthesisStarts
    \/ SynthesisEnds
    \/ CancelledEventFires

ServiceSpec == VoiceInit /\ [][ServiceNext]_vars

-----------------------------------------------------------------------------
(* A VoiceChat session: the page mounts VoiceChat instead of AIVoiceConsultation *)

\* what the user says to the assistant
ChatUtterances == { "Hello", " " }

\* The closures of VoiceChat's latest render
CurrentChatEnv == ChatEnv(autoResumeListen, isSpeaking, isProcessing, autoSpeak)

\* VoiceChat has no mount effect that speaks: it starts silent, with no message
ChatInit ==
    /\ \E recSupported \in BOOLEAN, countsPending \in BOOLEAN :
          InitFrom(Fresh(recSupported, TRUE, countsPending))
    /\ budget = Budget(MaxChatClicks, MaxFaults, MaxChatTurns, { })

\* A step of a run that holds at most budget.turns exchanges.  The exchanges of a
\* closed dialog are not recorded as messages (its timers and callbacks go on), so
\* the speak calls are bounded as well: one per exchange and one per replay
ChatMove(n, kind) ==
    /\ Len(n.messages) <= 2 * budget.turns
    /\ n.speakCalls <= budget.turns + budget.clicks
    /\ Move(n, kind)

\* The Start Speaking button: shown when not listening, disabled while processing
\* or speaking
ChatClickSpeak ==
    /\ mounted /\ ~isListening /\ ~(isProcessing \/ isSpeaking)
    /\ ChatMove(VoiceChat_handleStartListening(St, CurrentChatEnv), "speak")

\* The Stop Listening button: shown when listening
ChatClickStopListening ==
    /\ mounted /\ isListening
    /\ ChatMove(VoiceChat_handleStopListening(St), "stopListening")

\* The Skip AI button: shown when speaking
ChatClickSkipAI ==
    /\ mounted /\ isSpeaking
    /\ ChatMove(VoiceChat_handleStopSpeaking(St, CurrentChatEnv), "skip")

\* The play/stop button of a message of the assistant
ChatClickReplay ==
    /\ mounted
    /\ \E i \in 1..Len(messages) :
          /\ messages[i][1] = "ai"
          /\ ChatMove(handleReplay(St, CurrentChatEnv, messages[i][2]), "replay")

ChatClickToggleAutoListen ==
    /\ mounted
    /\ ChatMove(VoiceChat_toggleAutoListen(St, CurrentChatEnv), "toggle")

ChatClickToggleAutoSpeak ==
    /\ mounted
    /\ ChatMove(setAutoSpeak(St, ~autoSpeak), "toggleSpeak")

\* The Close button: the page stops rendering VoiceChat
ChatClickClose ==
    /\ mounted
    /\ ChatMove(VoiceChat_unmount(St), "close")

\* A final result: while listening, or for the audio already received when stop()
\* was called
ChatFinal ==
    /\ recognition \in { "running", "stopping" }
    /\ \E text \in ChatUtterances : Final(text)

ChatDebounceFires ==
    \E i \in 1..Len(tasks) :
        /\ Runnable(i, "chatDebounce")
        /\ ChatMove(VoiceChat_debounceTimeout(Without(i), tasks[i]), "chatDebounce")

ChatGraceFires ==
    \E i \in 1..Len(tasks) :
        /\ Runnable(i, "chatGrace")
        /\ ChatMove(VoiceChat_resumeTimeout(Without(i), tasks[i]), "chatGrace")

ChatResumeFires ==
    \E i \in 1..Len(tasks) :
        /\ Runnable(i, "chatResume")
        /\ ChatMove(VoiceChat_resumeTimeout(Without(i), tasks[i]), "chatResume")

ChatRetryFires ==
    \E i \in 1..Len(tasks) :
        /\ Runnable(i, "chatRetry")
        /\ ChatMove(VoiceChat_retryTimeout(Without(i), tasks[i]), "chatRetry")

ChatSkipFires ==
    \E i \in 1..Len(tasks) :
        /\ Runnable(i, "chatSkip")
        /\ ChatMove(VoiceChat_skipTimeout(Without(i), tasks[i]), "chatSkip")

ChatNext ==
    \/ ChatClickSpeak
    \/ ChatClickStopListening
    \/ ChatClickSkipAI
    \/ ChatClickReplay
    \/ ChatClickToggleAutoListen
    \/ ChatClickToggleAutoSpeak
    \/ ChatClickClose
    \/ ChatFinal
    \/ RecognitionError
    \/ RecognitionEnds
    \/ SynthesisStarts
    \/ SynthesisEnds
    \/ SynthesisFails
    \/ ChatDebounceFires
    \/ ChatGraceFires
    \/ ChatResumeFires
    \/ ChatRetryFires
    \/ ChatSkipFires
    \/ CancelledEventFires
    \/ RecognitionEndFires

ChatSpec == ChatInit /\ [][ChatNext]_vars

-----------------------------------------------------------------------------
(* Properties *)

\* The speech channel is capturing: the recognition engine is listening
Capturing == recognition = "running"

\* An utterance is being spoken
Speaking == synthQueue # << >> /\ synthQueue[1].started

\* C1: in every reachable state of a session at most one of capture active and
\* playback active holds: the channel never captures while an utterance is spoken.
NoCaptureWhileSpeaking == ~(Capturing /\ Speaking)

StageRank(st) ==
    CASE st = "greeting" -> 0
      [] st = "collecting" -> 1
      [] st = "analyzing" -> 2
      [] st = "complete" -> 3

\* C2: over any sequence of committed utterances the stage stays the same or moves
\* forward in the order greeting < collecting < analyzing < complete; the only
\* backward step is analyzing -> collecting, taken only on an utterance that signals
\* completion while no symptom is recorded.
StageOnlyAdvances ==
    [][ \/ StageRank(stage') >= StageRank(stage)
        \/ /\ stage = "analyzing" /\ stage' = "collecting"
           /\ Len(symptoms') = 0
           /\ fullTranscript' # << >>
           /\ wantsAnalysis(toLowerCase(fullTranscript'[Len(fullTranscript')])) ]_vars

\* The stage has held at analyzing on one utterance and then advanced to complete
StageAdvancedToComplete ==
    /\ stage = "complete"
    /\ \E i \in 1..Len(messages) : messages[i] = << "ai", "Noted. Any other symptoms?" >>

\* C3: at most one utterance-processing pipeline is in flight at any time: no
\* utterance is committed (turnCount incremented) while a handleUserMessage call is
\* still suspended before its stage transition; and a commit stops capture and
\* leaves no debounce timer pending.
OnePipelineInFlight ==
    [][ turnCount' # turnCount =>
          /\ inflight = << >>
          /\ ~vsIsListening' /\ recognition' # "running"
          /\ ~HasTask(tasks', "debounce") ]_vars

\* C4: after the session is closed (the unmount cleanup has run) capture and
\* playback are inactive and stay inactive: no timer pending at close time later
\* starts capture or playback.
ClosedSessionIsSilent == ~mounted => ~Capturing /\ ~Speaking

AtMostOneTerminal == \A i \in 1..speakCalls : terminal[i] <= 1

\* An utterance starts only after every earlier speak call has had its callback
SupersededFirst ==
    \A k \in 1..Len(synthQueue) :
        synthQueue[k].started => \A i \in 1..(synthQueue[k].id - 1) : terminal[i] = 1

SpeakTerminates ==
    \A i \in 1..MaxSpeakCalls :
        (speakCalls >= i) ~> (speakCalls >= i /\ terminal[i] = 1)

\* C5: every call of VoiceService.speak eventually gets exactly one terminal
\* callback (onEnd or onError), never two, also when it is superseded by a later
\* speak() or stopSpeaking() and when speech synthesis is unsupported; a superseded
\* call gets it before the superseding utterance starts.
SpeakExactlyOneTerminal ==
    /\ [](AtMostOneTerminal /\ SupersededFirst)
    /\ SpeakTerminates

\* Call 1 was cancelled by speak call 2, whose utterance is queued, and its
\* terminal event is still to be dispatched
SupersededAwaitsCallback ==
    /\ \E k \in 1..Len(tasks) : tasks[k].k = "cancelled" /\ tasks[k].id = 1
    /\ synthQueue # << >> /\ synthQueue[1].id = 2
    /\ terminal[1] = 0

\* At most one debounce timer is pending, and it carries the latest final's text
OneDebounceTimer ==
    /\ Cardinality({ k \in 1..Len(tasks) : tasks[k].k = "debounce" }) <= 1
    /\ \A k \in 1..Len(tasks) : tasks[k].k = "debounce" => tasks[k].text = lastFinal

\* C6: a final transcript that arrives while the debounce timer of an earlier final
\* is pending replaces that timer by one carrying the latest text; however many
\* finals arrive before the timer fires, they lead to at most one committed
\* utterance (turnCount grows by 1), whose text is that of the most recent final.
DebounceCommitsLatestFinal ==
    /\ []OneDebounceTimer
    /\ [][ turnCount' # turnCount =>
              /\ turnCount' = turnCount + 1
              /\ fullTranscript' = Append(fullTranscript, lastFinal)
              /\ ~HasTask(tasks', "debounce") ]_vars

\* Several finals have arrived, one timer is pending and capture is still active
SeveralFinalsOneTimer ==
    /\ finals = 2 /\ lastFinal = "yes I have a headache"
    /\ HasTask(tasks, "debounce") /\ vsIsListening

\* A step that starts capture
CaptureStarts == recognition # "running" /\ recognition' = "running"

\* A step in which the user presses a button
UserActs == clicks' # clicks

\* C7: once the stage is complete capture is never restarted automatically:
\* neither a playback end nor a playback error nor Skip AI leads to a capture
\* start; only a press of the Speak button starts capture.
NoAutoCaptureWhenComplete ==
    [][ stage = "complete" /\ CaptureStarts => UserActs ]_vars

\* C8: after the user has switched auto-listen off, capture is not started
\* automatically (by a playback end or error, a capture error or a timer) until the
\* user presses Speak or switches auto-listen back on.
NoAutoCaptureWhenSwitchedOff ==
    [][ ~armed /\ CaptureStarts => UserActs ]_vars

\* Nothing is pending: no timer, no queued event, no utterance, no oracle call
Quiescent == tasks = << >> /\ synthQueue = << >> /\ inflight = << >>

\* C9: with auto-listen on and the stage not complete, after the utterance that
\* answers a committed user utterance has finished playing or failed, capture
\* becomes active again unless the user presses a button: the session is never
\* left with the restart due and nothing pending that could start capture.
CaptureResumesAfterPlayback == cycle = "due" => ~Quiescent

\* The user's confirmation in stage complete has been answered and the answer has
\* been spoken: nothing is pending
ConfirmationAnswered ==
    /\ Quiescent
    /\ messages # << >>
    /\ messages[Len(messages)] = << "ai", "Perfect! I'll create your consultation request now." >>

\* C10: the hand-off callback onSubmitSymptoms is invoked exactly once in a session
\* in which the user confirms hand-off in stage complete: a confirming utterance
\* (yes, create, sure, please) leads to one invocation, and no session invokes it
\* twice.
HandOffOnceOnConfirmation ==
    /\ submitted <= 1
    /\ ConfirmationAnswered => submitted = 1

\* The set of the labels recorded
Labels(list) == { list[i] : i \in 1..Len(list) }

\* The four utterances of the headache scenario have been committed, in order, and
\* answered
HeadacheScenarioAnswered == fullTranscript = HeadacheScenario /\ inflight = << >>

\* C11: from a fresh session, committing "I have a really bad headache", "started
\* this morning", "it's about a 7 out of 10", "no that's all" in order ends in stage
\* complete with the symptom set exactly {"Headache"} and a non-empty recommendation
\* in the spoken result.
HeadacheScenarioResult ==
    HeadacheScenarioAnswered =>
        /\ stage = "complete"
        /\ Labels(symptoms) = { "Headache" }
        /\ shownAnalysis.recommendation # ""

\* The text contains a negation marker
HasNegation(text) ==
    LET lowerText == toLowerCase(text)
    IN \E marker \in { "don't", "no ", "nothing" } : includes(lowerText, marker)

\* The labels of the vocabulary keywords the text contains
KeywordLabels(text) ==
    LET lowerText == toLowerCase(text)
    IN { Capitalize(symptomKeywords[i]) :
           i \in { k \in 1..Len(symptomKeywords) : includes(lowerText, symptomKeywords[k]) } }

\* A step that commits a user utterance, and the utterance it commits
Commit == turnCount' = turnCount + 1
Committed == fullTranscript'[Len(fullTranscript')]

\* C12, as stated: after each committed utterance that contains a vocabulary keyword
\* and no negation marker, the symptom set is a strict superset of the set before.
SymptomsGrowStrictly ==
    [][ Commit /\ KeywordLabels(Committed) # {} /\ ~HasNegation(Committed) =>
          /\ Labels(symptoms) \subseteq Labels(symptoms')
          /\ Labels(symptoms) # Labels(symptoms') ]_vars

\* C12, corrected: after each committed utterance that contains a vocabulary keyword
\* and no negation marker, the symptom set is the union of the set before and the
\* labels of the keywords in the utterance: a superset, strict exactly when one of
\* these labels was not recorded before.
SymptomsGrowByUnion ==
    [][ Commit /\ KeywordLabels(Committed) # {} /\ ~HasNegation(Committed) =>
          /\ Labels(symptoms') = Labels(symptoms) \cup KeywordLabels(Committed)
          /\ Len(symptoms') = Cardinality(Labels(symptoms')) ]_vars

\* A keyword utterance has added its label to those of an earlier one, and the
\* earlier utterance, repeated, has added nothing
LabelsAccumulated ==
    /\ fullTranscript = << "I have a really bad headache", "and a Fever since yesterday",
                           "I have a really bad headache" >>
    /\ symptoms = << "Headache", "Ache", "Fever" >>

\* C13: an utterance that contains a negation marker ("don't", "no ", "nothing")
\* adds no label to the symptom set and removes none, in every stage and whatever
\* keywords it also contains: the set after the utterance equals the set before.
NegationChangesNothing ==
    [][ Commit /\ HasNegation(Committed) => symptoms' = symptoms ]_vars

\* A negated utterance that names two keywords has been committed after a symptom
\* was recorded
NegatedKeywordsCommitted ==
    /\ fullTranscript = << "I have a really bad headache", "No fever, just a cough" >>
    /\ symptoms = << "Headache", "Ache" >>

\* The first utterance of the session, "I don't have any pain", has been answered
DenialAnswered == fullTranscript = << "I don't have any pain" >> /\ inflight = << >>

\* C14: in a fresh session, committing "I don't have any pain" leaves the symptom
\* set empty, moves the stage to collecting, and the one system utterance produced
\* is the generic "what's bothering you" prompt, not a symptom acknowledgement.
DenialAtGreeting ==
    DenialAnswered =>
        /\ symptoms = << >>
        /\ stage = "collecting"
        /\ messages = << << "ai", greeting >>, << "user", "I don't have any pain" >>,
                         << "ai", "Please describe your symptoms. What's bothering you?" >> >>

\* The denial has been answered and the answer is being spoken
DenialAnswerSpoken ==
    /\ DenialAnswered
    /\ Speaking /\ synthQueue[1].id = 2

\* The system messages recorded, and the pipelines that have run to their end
SystemMessages == Cardinality({ i \in 1..Len(messages) : messages[i][1] = "ai" })
CompletedPipelines == turnCount - Len(inflight)

\* C15: each committed, non-blank user utterance produces exactly one system
\* utterance, recorded and dispatched to playback, whether or not the analysis
\* fails, and apart from the greeting no system utterance is produced without a
\* committed utterance: after n completed pipelines the open session holds n + 1
\* system messages, and n + 1 utterances have been dispatched to playback.
OneAnswerPerUtterance ==
    /\ mounted => SystemMessages = CompletedPipelines + 1
    /\ speakCalls = CompletedPipelines + 1

\* Four utterances have been answered, the last one after the oracle call failed
AnswersWithFailedOracle ==
    /\ mounted /\ turnCount = 4 /\ inflight = << >>
    /\ lastAnalysis.reply.kind = "throws"
    /\ SystemMessages = 5

\* The step's last system message proposes a consultation and the stage is complete
ProposesConsultation ==
    /\ stage' = "complete"
    /\ SystemMessages' = SystemMessages + 1
    /\ messages'[Len(messages')][1] = "ai"
    /\ messages'[Len(messages')][2] \in AnalysisMessages

\* A step that commits a completion signal in stage analyzing with symptoms recorded
AnalysisRequested ==
    /\ Commit /\ stage = "analyzing" /\ symptoms' # << >>
    /\ wantsAnalysis(toLowerCase(Committed))

\* C16: when the user signals completion in stage analyzing with symptoms recorded
\* and the analysis fails in any way (the oracle call throws, the service cannot be
\* constructed, the reply is malformed), the pipeline still produces one system
\* utterance that proposes a consultation and the stage becomes complete: the
\* request either produces it at once or waits for the oracle, and every reply of
\* the oracle produces it.
AnalysisFailureStillProposes ==
    [][ /\ AnalysisRequested => \/ ProposesConsultation
                                  \/ /\ Len(inflight') = Len(inflight) + 1
                                     /\ SubSeq(inflight', 1, Len(inflight)) = inflight
        /\ Len(inflight') < Len(inflight) => ProposesConsultation ]_vars

\* The oracle's reply to a completion signal was not JSON, and the session has
\* proposed a consultation with the analysis of the local classifier
MalformedReplyAnswered ==
    /\ lastAnalysis.reply.kind = "malformed"
    /\ stage = "complete" /\ mounted
    /\ shownAnalysis = getFallbackAnalysis(symptoms, join(fullTranscript, " "))

\* A marker of the list occurs, in any letter case, in a symptom label or in the
\* narrative of the analyzeSymptoms call c
Mentions(list, c) ==
    \E i \in 1..Len(list) :
        \/ \E j \in 1..Len(c.symptoms) : includes(toLowerCase(c.symptoms[j]), list[i])
        \/ includes(toLowerCase(c.description), list[i])

\* C17: analyzeSymptoms returns a result and never throws, for every input (also an
\* empty symptom list and an empty narrative) and every outcome of the oracle call
\* (transport error, empty content, malformed JSON, JSON that is not an object); with
\* the oracle throwing, analyze(["Fever"], narrative without a critical marker)
\* returns priority high and specialty General Practitioner.
AnalyzeNeverThrows ==
    oracleCalls > 0 =>
        /\ ~lastAnalysis.result.threw
        /\ lastAnalysis.result.value.priority # ""
        /\ lastAnalysis.result.value.recommendation # ""
        /\ ( /\ lastAnalysis.reply.kind = "throws"
             /\ lastAnalysis.symptoms = << "Fever" >>
             /\ ~Mentions(critical, lastAnalysis) ) =>
                /\ lastAnalysis.result.value.priority = "high"
                /\ lastAnalysis.result.value.specialty = "General Practitioner"

\* The oracle call threw and ["Fever"] with an ordinary narrative was classified high
FeverAnalysedWithoutOracle ==
    /\ lastAnalysis.reply.kind = "throws"
    /\ lastAnalysis.symptoms = << "Fever" >> /\ lastAnalysis.description = "I feel tired"
    /\ lastAnalysis.result.value.priority = "high"

\* The call was answered by the local classifier
FellBack == lastAnalysis.reply.kind \in { "throws", "empty", "malformed", "null" }

\* C18: the local fallback classifier returns urgent and Emergency Medicine whenever
\* a critical marker occurs (in any letter case, as a substring) in a symptom label
\* or in the narrative, whatever elevated markers are also present; otherwise high
\* and General Practitioner whenever an elevated marker occurs; otherwise medium
\* and General Practitioner; it never returns low.
FallbackClassification ==
    FellBack =>
        /\ lastAnalysis.result.value.priority =
              IF Mentions(critical, lastAnalysis) THEN "urgent"
              ELSE IF Mentions(highPriority, lastAnalysis) THEN "high"
              ELSE "medium"
        /\ lastAnalysis.result.value.specialty =
              IF Mentions(critical, lastAnalysis) THEN "Emergency Medicine"
              ELSE "General Practitioner"
        /\ lastAnalysis.result.value.priority # "low"

\* The classifier was given a critical marker in upper case together with elevated
\* markers and returned urgent
CriticalBeatsElevated ==
    /\ FellBack
    /\ lastAnalysis.symptoms = << "Cough", "High FEVER" >>
    /\ lastAnalysis.description = "I had a SEIZURE and a fever"
    /\ lastAnalysis.result.value.priority = "urgent"

\* C19: within one session the triage oracle is asked at most once unless the user
\* asks for a new analysis: reaching stage complete and confirming hand-off triggers
\* no second analysis, and the analysis shown to the user in the session is the one
\* that accompanies the hand-off.
HandOffKeepsAnalysis ==
    /\ oracleCalls <= 1
    /\ submitted > 0 /\ ~analyzing /\ aiAnalysis # NoAnalysis => aiAnalysis = shownAnalysis

\* C20: the manual actions stop listening, skip speaking and toggle auto-listen
\* leave the conversation state unchanged, in every phase: stage, turnCount,
\* symptoms and transcript are the same after the action as before it.
ManualActionsKeepConversation ==
    [][ ClickStopListening \/ ClickSkipAI \/ ClickToggleAutoListen =>
          UNCHANGED << stage, turnCount, symptoms, fullTranscript >> ]_vars

\* Auto-listen has been switched off in the middle of the conversation, after two
\* utterances with a symptom
ToggledMidConversation ==
    /\ mounted /\ ~autoResumeListen
    /\ turnCount = 2 /\ stage = "collecting" /\ symptoms # << >>

\* C21: after a manual stop-listening action capture is inactive and no debounce
\* timer is pending, and capture stays inactive until the user acts again: no timer
\* scheduled before the stop (capture-error retry, playback grace delay,
\* skip-speaking delay) starts capture after it.
StoppedCaptureStaysStopped ==
    /\ [][ halted' /\ ~halted => ~Capturing' /\ ~vsIsListening' /\ ~HasTask(tasks', "debounce") ]_vars
    /\ [][ halted /\ CaptureStarts => UserActs ]_vars

\* The callbacks of the client's latest startListening call
LatestCallbacks == ClientCallbacks(Len(heard))

AtMostOneUtterance == Len(synthQueue) <= 1

\* C25: when speech capture is unsupported, a start-listening request (a press of
\* Speak, or the start that follows Skip AI) shows the unsupported notification,
\* does not throw and changes nothing else: capture is not active, the listening
\* flag and the resume intent are not set, and the conversation state is untouched.
UnsupportedCaptureIsReported ==
    /\ [](~recognitionSupported =>
             ~Capturing /\ ~vsIsListening /\ ~isListening /\ ~shouldResumeListening /\ ~uncaught)
    /\ [][ ~recognitionSupported /\ (ClickSpeak \/ SkipFires) =>
              /\ toasts' = Append(toasts, "Speech recognition is not supported in your browser")
              /\ UNCHANGED << stage, turnCount, symptoms, fullTranscript, messages,
                              recHandlers, processingTimeoutRef, isSpeaking >> ]_vars

\* The user has pressed Speak once in a user agent without speech recognition
UnsupportedStartRequested ==
    /\ ~recognitionSupported /\ clicks = 1 /\ tasks = << >>
    /\ toasts = << "Speech recognition is not supported in your browser" >>

\* C26: a capture error of kind no-speech or aborted produces no user-visible
\* notification and a capture error of any other kind produces exactly one; a
\* reply of the oracle, whatever it is, and the failure or cancellation of an
\* utterance produce none.
OnlyHardCaptureErrorsNotify ==
    /\ [](\A i \in 1..Len(toasts) :
             \A error \in TransientErrors : toasts[i] # "Speech recognition error: " \o error)
    /\ [][ \A error \in ErrorKinds :
              recognition = "running" /\ faults' # faults /\ RecognitionErrorOf(error) =>
                  toasts' = IF error \in TransientErrors
                            THEN toasts
                            ELSE Append(toasts, "Speech recognition error: " \o error) ]_vars
    /\ [][ /\ Len(toasts') <= Len(toasts) + 1
           /\ \/ Len(inflight') < Len(inflight)
              \/ analyzing /\ ~analyzing'
              \/ \E i \in 1..speakCalls : terminal'[i] # terminal[i]
              => toasts' = toasts ]_vars

\* The oracle call has thrown and a capture has failed with a network error: the
\* only notification is that of the capture error
NetworkErrorNotified ==
    /\ lastAnalysis.reply.kind = "throws" /\ stage = "complete"
    /\ faults = 1 /\ toasts = << "Speech recognition error: network" >>

\* C27: when capture reports a no-speech or aborted error while auto-listen is on
\* and the resume intent is set, capture becomes active again unless the user
\* presses a button: the session is never left after such an error with capture
\* inactive and nothing pending that could start it. An error of another kind
\* schedules no restart.
TransientErrorRestartsCapture ==
    /\ [][ lapsed' => ~Quiescent' ]_vars
    /\ [][ \A error \in ErrorKinds \ TransientErrors :
              recognition = "running" /\ faults' # faults /\ RecognitionErrorOf(error) =>
                  Cardinality({ k \in 1..Len(tasks') : tasks'[k].k = "retry" })
                    = Cardinality({ k \in 1..Len(tasks) : tasks[k].k = "retry" }) ]_vars

\* C28: when the oracle's response parses as a JSON object, the result takes each
\* field that is present from the response and defaults each missing or empty one
\* (priority medium, the generic recommendation, specialty General Practitioner,
\* no follow-up questions); when the response cannot be parsed (malformed or empty
\* content) or parsing raises (the JSON text of null), the result is the local
\* fallback's result for the same symptoms and narrative.
ParsedReplyIsDefaulted ==
    oracleCalls > 0 =>
        /\ lastAnalysis.reply.kind = "object" =>
              /\ ~lastAnalysis.result.threw
              /\ lastAnalysis.result.value.priority =
                    IF lastAnalysis.reply.priority = "" THEN "medium"
                    ELSE lastAnalysis.reply.priority
              /\ lastAnalysis.result.value.recommendation =
                    IF lastAnalysis.reply.recommendation = ""
                    THEN "Please consult with a healthcare provider."
                    ELSE lastAnalysis.reply.recommendation
              /\ lastAnalysis.result.value.specialty =
                    IF lastAnalysis.reply.specialty = "" THEN "General Practitioner"
                    ELSE lastAnalysis.reply.specialty
              /\ lastAnalysis.result.value.followUpQuestions = lastAnalysis.reply.followUpQuestions
        /\ lastAnalysis.reply.kind \in { "malformed", "empty", "null" } =>
              lastAnalysis.result =
                  Returned(getFallbackAnalysis(lastAnalysis.symptoms, lastAnalysis.description))

\* An object without priority and recommendation, with a specialty and questions,
\* was completed with the defaults
PartialReplyCompleted ==
    /\ oracleCalls > 0
    /\ lastAnalysis.reply =
          WithQuestions(Reply("object", "", "", "Neurology"),
                        << "How long has it lasted?", "Any allergies?" >>)
    /\ lastAnalysis.result.value =
          Analysis("medium", "Please consult with a healthcare provider.", "Neurology",
                   << "How long has it lasted?", "Any allergies?" >>)

\* C29: with the oracle failing, analyzeSymptoms is deterministic: calls with the
\* same symptoms and narrative return equal results, in whatever order the calls
\* are made, however many there are and however the oracle fails, and a call
\* changes nothing but the record of the call itself.
FallbackIsDeterministic ==
    /\ [][ \A i, j \in 1..Len(analysed') :
              ( /\ analysed'[i].symptoms = analysed'[j].symptoms
                /\ analysed'[i].description = analysed'[j].description ) =>
                    analysed'[i].result = analysed'[j].result ]_vars
    /\ [][ oracleCalls' # oracleCalls =>
              /\ lastAnalysis'.symptoms = selectedSymptoms
              /\ lastAnalysis'.description = description
              /\ St' = [St EXCEPT !.oracleCalls = oracleCalls',
                                  !.lastAnalysis = lastAnalysis'] ]_vars

\* The same arguments were analysed before and after a call with other
\* arguments, the oracle failing in three different ways
SameInputAnalysedTwice ==
    /\ Len(analysed) = 3
    /\ analysed[1].symptoms = analysed[3].symptoms
    /\ analysed[1].description = analysed[3].description
    /\ analysed[2].symptoms # analysed[1].symptoms
    /\ analysed[1].reply.kind = "throws"
    /\ analysed[2].reply.kind = "null"
    /\ analysed[3].reply.kind = "malformed"
    /\ analysed[1].result = analysed[3].result
    /\ analysed[2].result # analysed[1].result

\* C30: in stage analyzing an utterance starts the analysis only if it contains
\* one of no, nothing, analyze, yes, that's all, nope; an utterance that reports a
\* further symptom without such a signal ("I also noticed a rash", "my nose is
\* runny") keeps the stage at analyzing, starts no analysis and is answered with
\* the question for other symptoms.
FurtherSymptomKeepsAnalyzing ==
    /\ [][ stage = "analyzing" /\ Commit /\ inflight' # inflight =>
              wantsAnalysis(toLowerCase(Committed)) ]_vars
    /\ [][ stage = "analyzing" /\ Commit /\ Committed \in FurtherSymptomReports =>
              /\ stage' = "analyzing"
              /\ inflight' = inflight /\ oracleCalls' = oracleCalls
              /\ messages'[Len(messages')] = << "ai", "Noted. Any other symptoms?" >> ]_vars

\* A message of the assistant that is one of the scripted follow-up questions
IsScriptedQuestion(m) == m[1] = "ai" /\ InSeq(m[2], questions)

\* The scripted questions asked so far, in the order they were asked
AskedQuestions == SelectSeq(messages, IsScriptedQuestion)

\* C31: the scripted follow-up questions of stage collecting are asked in the
\* order of the list, from its first entry on, one per turn, the last entry being
\* repeated once the list is exhausted.
QuestionsAskedInOrder ==
    \A k \in 1..Len(AskedQuestions) :
        AskedQuestions[k][2] = questions[Min(k, Len(questions))]

\* The text consists of white space only
Blank(text) == \A i \in 1..Len(text) : charAt(text, i) = " "

\* The text of the final transcript that waits for its debounce timer
PendingText == tasks[CHOOSE i \in 1..Len(tasks) : tasks[i].k = "debounce"].text

\* The debounce timer of a buffered final transcript fires
DebounceStep ==
    /\ HasTask(tasks, "debounce") /\ clicks' = clicks /\ faults' = faults
    /\ DebounceFires

\* C32: turnCount equals the length of the transcript in every state; turnCount
\* increases only by one, and only by the commit of an utterance that is not blank,
\* which is appended to the transcript; the transcript only grows at its end; a
\* blank text whose debounce timer fires changes nothing and stops nothing.
TurnCountCountsTranscript ==
    /\ [][ turnCount' = Len(fullTranscript') ]_vars
    /\ [][ turnCount' # turnCount =>
              /\ turnCount' = turnCount + 1
              /\ DebounceStep /\ ~Blank(PendingText)
              /\ fullTranscript' = Append(fullTranscript, PendingText) ]_vars
    /\ [][ /\ Len(fullTranscript') >= Len(fullTranscript)
           /\ SubSeq(fullTranscript', 1, Len(fullTranscript)) = fullTranscript ]_vars
    /\ [][ DebounceStep /\ Blank(PendingText) =>
              /\ [St EXCEPT !.tasks = << >>]' = [St EXCEPT !.tasks = << >>]
              /\ Len(tasks') = Len(tasks) - 1 ]_vars

\* Two utterances are committed, capture is active again, and the debounce timer of
\* a blank final transcript has fired without stopping it
BlankFinalIgnored ==
    /\ turnCount = 2 /\ Len(fullTranscript) = 2
    /\ clicks = 1 /\ faults = 0
    /\ recognition = "running" /\ vsIsListening /\ isListening
    /\ processingTimeoutRef /\ ~HasTask(tasks, "debounce")

\* The texts of the analyzing stage's return to collecting and of the final
\* default branch of getAIResponseForState
UnreachableTexts == { "I don't have any symptoms recorded", "Could you tell me more?" }

\* C33: whenever the stage is analyzing or complete a symptom is recorded; the
\* analyzing stage never hands back to collecting and the default branch of the
\* transition function is never taken; a session in which no symptom is detected
\* does not leave collecting.
NoAnalysisWithoutSymptoms ==
    /\ [][ /\ stage' \in { "analyzing", "complete" } => Len(symptoms') > 0
           /\ \A i \in 1..Len(messages') : messages'[i][2] \notin UnreachableTexts ]_vars
    /\ [][ stage = "analyzing" => stage' \in { "analyzing", "complete" } ]_vars
    /\ [][ stage = "collecting" /\ symptoms' = << >> => stage' = "collecting" ]_vars

\* Four utterances without a symptom are committed and the stage is collecting
StillCollectingWithoutSymptoms ==
    /\ turnCount = MaxScenarioTurns /\ inflight = << >> /\ ~isProcessing
    /\ symptoms = << >> /\ stage = "collecting"
    /\ messages[Len(messages)] = << "ai", "I'm having trouble identifying specific symptoms" >>

\* C34: whenever the controller's listening flag is set, the speech channel has an
\* active capture session, also after the engine has ended the session on its own,
\* after a start that failed, and after an error reported through the callback.
ListeningFlagMeansCapture == mounted /\ isListening => Capturing

\* C35: a buffered final transcript is committed only if the capture session that
\* delivered it is still active when its debounce timer fires, and the commit
\* leaves capture inactive; a final whose session has ended, failed or been stopped
\* before the timer fires is discarded: turnCount, transcript, symptoms and stage
\* keep their values.
OnlyLiveFinalsCommitted ==
    /\ [][ turnCount' # turnCount => Capturing /\ ~stale /\ ~Capturing' ]_vars
    /\ [][ stale /\ DebounceStep =>
              /\ turnCount' = turnCount /\ fullTranscript' = fullTranscript
              /\ symptoms' = symptoms /\ stage' = stage ]_vars

\* SymptomAnalysis.priority: 'urgent' | 'high' | 'medium' | 'low'
Priorities == { "urgent", "high", "medium", "low" }

\* C36: every result that analyzeSymptoms returns, from the oracle's response as
\* well as from the local fallback, has a priority that is one of urgent, high,
\* medium, low.
PriorityIsListed ==
    oracleCalls > 0 /\ ~lastAnalysis.result.threw =>
        lastAnalysis.result.value.priority \in Priorities

\* C37: the hand-off callback is invoked only while the stage is complete and a
\* symptom is recorded; it is given exactly the recorded symptoms and the committed
\* utterances in their order; the invocation leaves capture inactive, the resume
\* intent cleared, no debounce timer pending and the session closed.
HandOffOnlyWhenComplete ==
    [][ submitted' # submitted =>
          /\ submitted' = submitted + 1
          /\ stage = "complete" /\ Len(symptoms) > 0
          /\ selectedSymptoms' = symptoms
          /\ description' = join(fullTranscript, "\n\n")
          /\ symptoms' = symptoms /\ fullTranscript' = fullTranscript
          /\ ~Capturing' /\ ~vsIsListening' /\ ~shouldResumeListening'
          /\ ~HasTask(tasks', "debounce") /\ ~mounted' ]_vars

\* A session of four or more committed utterances has been handed over: the
\* capture session is stopped, no timer handle is held, the component is unmounted
\* and the page holds the payload
HandedOverWhileCapturing ==
    /\ submitted = 1 /\ ~mounted
    /\ recognition = "stopping" /\ processingTimeoutRef = FALSE
    /\ Len(fullTranscript) >= 4
    /\ selectedSymptoms = symptoms /\ description = join(fullTranscript, "\n\n")

\* C38: in a VoiceChat session the recognition engine never listens while an
\* utterance is being spoken, whatever the user presses (Start Speaking, Stop
\* Listening, a message's replay button, Skip AI, the auto-listen and auto-speak
\* toggles, Close) and whatever the devices do
ChatCaptureExcludesPlayback == ~(Capturing /\ Speaking)

=============================================================================
